---- MODULE Spec2Model ----
(***************************************************************************)
(* rust-cycle: the FIT binary encoder (src/src/fit.rs), the BLE            *)
(* measurement decoders and the sample store (src/src/main.rs), and the    *)
(* rate calculator and session aggregator of the specification.  Each has  *)
(* its own specification; the variables of the others stay idle in it.     *)
(*                                                                         *)
(* Numbers.  TLC's integers are 32-bit signed, so an unsigned 32-bit value *)
(* of the program is kept as two 16-bit limbs [hi, lo].  A floating point  *)
(* value is kept as an exact fraction [n, d] with d a power of two; every  *)
(* input drawn below is a dyadic fraction small enough that the program's  *)
(* f32/f64 products and sums are exact, so the exact arithmetic used here  *)
(* is the arithmetic of the program.  Option<T> is a sequence of length at *)
(* most one: None is <<>> and Some(x) is <<x>>.                            *)
(***************************************************************************)
EXTENDS Integers, Sequences, FiniteSets, TLC

VARIABLES
    list,             \* to_file's argument: the sequence of FitRecords
    overflow_checks,  \* build profile: TRUE when integer overflow panics (debug)
    pc,               \* where to_file is: "to_file_inner", "done" or "panicked"
    idx,              \* position of the `for record in list` loop
    bytes,            \* to_file_inner's `bytes`: the message section so far
    last_def,         \* to_file_inner's `last_def`
    out,              \* the byte sequence to_file returns
    log,              \* the messages appended to `bytes`, in order, one entry each
    data,             \* the payload handed to a decoder
    decoder,          \* the decoder that ran on it: "none", then "hrm", "csc" or "cpm"
    dpc,              \* where the decoder is: "ready", "returned" or "panicked"
    measurement,      \* the struct the decoder returned
    db,               \* the sled tree: the set of <<key, value>> entries, one per key
    mpc,              \* where main is: "stopped", "print_db" or "parked"
    run,              \* how many times main has been started on this database
    session_key,      \* main's session_key: 8 bytes
    last_elapsed,     \* the latest start.elapsed() of this run, <<secs, nanos>>
    received,         \* the notifications delivered to the handler, in order
    hrm_calls,        \* the calls of parse_hrm made by main and print_db
    printed,          \* the lines print_db has printed in this run
    previous,         \* the rate calculator's `previous` RevolutionData
    current,          \* the rate calculator's `current` RevolutionData
    width,            \* the width in bits of the source's count register
    rpc,              \* where the rate calculator is: "ready" or "returned"
    rate_result,      \* what it returned: None or Some([rpm, delta_count])
    samples,          \* the RawSamples the aggregator has consumed, in order
    session_start,    \* the session's start in seconds since the Unix epoch
    in_progress,      \* the aggregator's in-progress record: None or Some(FitRecord)
    last_power,       \* the carry-forward power: None or Some(u16)
    last_csc,         \* the previous CSC sample: None or Some(CscMeasurement)
    records,          \* the output sequence of FitRecords
    diagnostics,      \* the characteristic ids ignored with a diagnostic
    apc,              \* where the aggregator is: "aggregating" or "done"
    accumulated,      \* the torque accumulator's running total, N.m
    last_torque,      \* the previous accumulated-torque reading: None or Some
    readings,         \* the readings the accumulator has been given, in order
    display,          \* the Display: its workout: WorkoutDisplay and has_rendered
    memory_lcd,       \* what the MemoryLcd shows
    clock,            \* Instant::now(), in seconds since Display::new
    calls             \* the calls made on the Display, in order

fitVars == <<list, overflow_checks, pc, idx, bytes, last_def, out, log>>
decodeVars == <<data, decoder, dpc, measurement>>
storeVars == <<db, mpc, run, session_key, last_elapsed, received, hrm_calls, printed>>
rateVars == <<previous, current, width, rpc, rate_result>>
aggVars == <<samples, session_start, in_progress, last_power, last_csc, records,
             diagnostics, apc>>
torqueVars == <<accumulated, last_torque, readings>>
displayVars == <<display, memory_lcd, clock, calls>>
vars == <<list, overflow_checks, pc, idx, bytes, last_def, out, log,
          data, decoder, dpc, measurement,
          db, mpc, run, session_key, last_elapsed, received, hrm_calls, printed,
          previous, current, width, rpc, rate_result,
          samples, session_start, in_progress, last_power, last_csc, records,
          diagnostics, apc,
          accumulated, last_torque, readings,
          display, memory_lcd, clock, calls>>

(***************************************************************************)
(* Bounds of the model.                                                    *)
(***************************************************************************)
MaxRecords == 3
MaxPayload == 17
MaxRuns == 3
MaxNotifications == 3
MaxSamples == 3
MaxReadings == 3
MaxCalls == 3

(***************************************************************************)
(* Option, bit and width helpers.                                          *)
(***************************************************************************)
None == <<>>
Some(x) == <<x>>
IsSome(o) == o # <<>>

Pow16 == 65536

\* a ^ b for 16-bit a and b, four bits at a time.
RECURSIVE XorBits(_, _, _)
XorBits(a, b, n) ==
    IF n = 0 THEN 0
    ELSE (((a % 2) + (b % 2)) % 2) + 2 * XorBits(a \div 2, b \div 2, n - 1)

NibbleXor == [a \in 0..15 |-> [b \in 0..15 |-> XorBits(a, b, 4)]]

BitXor(a, b) ==
    NibbleXor[a % 16][b % 16]
    + 16 * NibbleXor[(a \div 16) % 16][(b \div 16) % 16]
    + 256 * NibbleXor[(a \div 256) % 16][(b \div 256) % 16]
    + 4096 * NibbleXor[(a \div 4096) % 16][(b \div 4096) % 16]

\* A u32 below 2^31 written as a number, as its two limbs.
ToU32(x) == [hi |-> x \div Pow16, lo |-> x % Pow16]

\* u32 wrapping subtraction a - b (release build), and whether it overflows.
U32WrappingSub(a, b) ==
    LET borrow == IF a.lo < b.lo THEN 1 ELSE 0
    IN  [hi |-> (a.hi - b.hi - borrow) % Pow16, lo |-> (a.lo - b.lo) % Pow16]

U32SubOverflows(a, b) == IF a.hi = b.hi THEN a.lo < b.lo ELSE a.hi < b.hi

\* The four bytes ts as u8, (ts >> 8) as u8, (ts >> 16) as u8, (ts >> 24) as u8.
U32ToLeBytes(x) ==
    <<x.lo % 256, x.lo \div 256, x.hi % 256, x.hi \div 256>>

\* u16::to_le_bytes
U16ToLeBytes(x) == <<x % 256, x \div 256>>

\* i32::to_le_bytes (two's complement) of v in -2^31 .. 2^31-1.
I32ToLeBytes(v) ==
    IF v >= 0
    THEN <<v % 256, (v \div 256) % 256, (v \div Pow16) % 256, v \div 16777216>>
    ELSE LET u == (v + 2147483647) + 1   \* v + 2^31, in 0 .. 2^31-1
         IN  <<u % 256, (u \div 256) % 256, (u \div Pow16) % 256,
               (u \div 16777216) + 128>>

(***************************************************************************)
(* Float to integer `as` casts: the fraction is truncated toward zero and  *)
(* the result saturates at the bounds of the target type.                  *)
(***************************************************************************)
TruncDiv(n, d) == IF n >= 0 THEN n \div d ELSE -((-n) \div d)

\* <<q', r'>> with q' + r'/den = (q + r/den) * p, for qr = <<q, r>>, 0 <= r < den.
ScaleStep(qr, den, p) ==
    <<qr[1] * p + ((qr[2] * p) \div den), (qr[2] * p) % den>>

\* The whole part and the remainder of (q + r/den) * 2^29, in three steps that
\* stay within 32 bits for den < 2^21.
MulPow29Div(q, r, den) ==
    ScaleStep(ScaleStep(ScaleStep(<<q, r>>, den, 1024), den, 1024), den, 512)

\* (l * ((1 << 29) as f64) / 45.0) as i32, as its little-endian bytes.
SemicirclesLeBytes(l) ==
    LET den == 45 * l.d
        m   == IF l.n >= 0 THEN l.n ELSE -l.n
    IN  IF l.n >= 180 * l.d THEN <<255, 255, 255, 127>>          \* i32::MAX
        ELSE IF l.n <= -(180 * l.d) THEN <<0, 0, 0, 128>>       \* i32::MIN
        ELSE LET q == MulPow29Div(m \div den, m % den, den)[1]
             IN  I32ToLeBytes(IF l.n >= 0 THEN q ELSE -q)

\* (x) as u16 for the fraction x = n/d.
CastU16(n, d) ==
    LET t == TruncDiv(n, d)
    IN  IF t < 0 THEN 0 ELSE IF t > 65535 THEN 65535 ELSE t

\* (x) as u32 for the fraction x = n/d below 2^31, as its limbs.
CastU32(n, d) ==
    LET t == TruncDiv(n, d)
    IN  IF t < 0 THEN ToU32(0) ELSE ToU32(t)

(***************************************************************************)
(* fit.rs                                                                  *)
(***************************************************************************)
FitEpochOffset == 631065600

make_header_counts_crc(length) ==
    <<12, 32, 235, 7,
      (length + 2) % 256, ((length + 2) \div 256) % 256,
      ((length + 2) \div Pow16) % 256, ((length + 2) \div 16777216) % 256,
      46, 70, 73, 84>>

make_header(length) ==
    <<12, 32, 235, 7,
      length % 256, (length \div 256) % 256,
      (length \div Pow16) % 256, (length \div 16777216) % 256,
      46, 70, 73, 84>>

\* record_to_bytes, lines 49-58: the message type and the timestamp.
record_head_unix_time(record) ==
    <<0>> \o U32ToLeBytes(record.seconds_since_unix_epoch)

record_head(record) ==
    LET ts == U32WrappingSub(record.seconds_since_unix_epoch, ToU32(FitEpochOffset))
    IN  <<0>> \o U32ToLeBytes(ts)

\* record_to_bytes, lines 76-77: the two bytes pushed for power.
power_bytes_big_endian(p) == <<p \div 256, p % 256>>

power_bytes(p) == <<p % 256, (p \div 256) % 256>>

record_to_bytes(record) ==
    LET b0 == record_head(record)
        b1 == IF IsSome(record.latitude)
              THEN b0 \o SemicirclesLeBytes(record.latitude[1]) ELSE b0
        b2 == IF IsSome(record.longitude)
              THEN b1 \o SemicirclesLeBytes(record.longitude[1]) ELSE b1
        b3 == IF IsSome(record.altitude)
              THEN b2 \o U16ToLeBytes(
                       LET a == record.altitude[1]
                       IN  CastU16(5 * (a.n + 500 * a.d), a.d))
              ELSE b2
        b4 == IF IsSome(record.power)
              THEN b3 \o power_bytes(record.power[1]) ELSE b3
        b5 == IF IsSome(record.heart_rate) THEN Append(b4, record.heart_rate[1]) ELSE b4
        b6 == IF IsSome(record.cadence) THEN Append(b5, record.cadence[1]) ELSE b5
        b7 == IF IsSome(record.distance)
              THEN b6 \o U32ToLeBytes(
                       LET x == record.distance[1] IN CastU32(100 * x.n, x.d))
              ELSE b6
        b8 == IF IsSome(record.speed)
              THEN b7 \o U16ToLeBytes(
                       LET s == record.speed[1] IN CastU16(1000 * s.n, s.d))
              ELSE b7
    IN  b8

\* line 49 in a build with overflow checks: `attempt to subtract with overflow`
record_to_bytes_panics(record, checks) ==
    checks /\ U32SubOverflows(record.seconds_since_unix_epoch, ToU32(FitEpochOffset))

\* record_def, lines 102-114.
field_count_without_altitude(record) ==
    1 + (IF IsSome(record.latitude) THEN 1 ELSE 0)
      + (IF IsSome(record.longitude) THEN 1 ELSE 0)
      + (IF IsSome(record.power) THEN 1 ELSE 0)
      + (IF IsSome(record.heart_rate) THEN 1 ELSE 0)
      + (IF IsSome(record.cadence) THEN 1 ELSE 0)
      + (IF IsSome(record.distance) THEN 1 ELSE 0)
      + (IF IsSome(record.speed) THEN 1 ELSE 0)

field_count(record) ==
    1 + (IF IsSome(record.latitude) THEN 1 ELSE 0)
      + (IF IsSome(record.longitude) THEN 1 ELSE 0)
      + (IF IsSome(record.altitude) THEN 1 ELSE 0)
      + (IF IsSome(record.power) THEN 1 ELSE 0)
      + (IF IsSome(record.heart_rate) THEN 1 ELSE 0)
      + (IF IsSome(record.cadence) THEN 1 ELSE 0)
      + (IF IsSome(record.distance) THEN 1 ELSE 0)
      + (IF IsSome(record.speed) THEN 1 ELSE 0)

\* The mutation of record_def that declares four bytes for the altitude.
record_def_altitude_four_bytes(record) ==
    LET b0 == <<64, 0, 0, 20, 0, field_count(record), 253, 4, 134>>
        b1 == IF IsSome(record.latitude) THEN b0 \o <<0, 4, 133>> ELSE b0
        b2 == IF IsSome(record.longitude) THEN b1 \o <<1, 4, 133>> ELSE b1
        b3 == IF IsSome(record.altitude) THEN b2 \o <<2, 4, 132>> ELSE b2
        b4 == IF IsSome(record.power) THEN b3 \o <<7, 2, 132>> ELSE b3
        b5 == IF IsSome(record.heart_rate) THEN b4 \o <<3, 1, 2>> ELSE b4
        b6 == IF IsSome(record.cadence) THEN b5 \o <<4, 1, 2>> ELSE b5
        b7 == IF IsSome(record.distance) THEN b6 \o <<5, 4, 134>> ELSE b6
        b8 == IF IsSome(record.speed) THEN b7 \o <<6, 2, 132>> ELSE b7
    IN  b8

record_def(record) ==
    LET b0 == <<64, 0, 0, 20, 0, field_count(record), 253, 4, 134>>
        b1 == IF IsSome(record.latitude) THEN b0 \o <<0, 4, 133>> ELSE b0
        b2 == IF IsSome(record.longitude) THEN b1 \o <<1, 4, 133>> ELSE b1
        b3 == IF IsSome(record.altitude) THEN b2 \o <<2, 2, 132>> ELSE b2
        b4 == IF IsSome(record.power) THEN b3 \o <<7, 2, 132>> ELSE b3
        b5 == IF IsSome(record.heart_rate) THEN b4 \o <<3, 1, 2>> ELSE b4
        b6 == IF IsSome(record.cadence) THEN b5 \o <<4, 1, 2>> ELSE b5
        b7 == IF IsSome(record.distance) THEN b6 \o <<5, 4, 134>> ELSE b6
        b8 == IF IsSome(record.speed) THEN b7 \o <<6, 2, 132>> ELSE b7
    IN  b8

crc_table ==
    <<0, 52225, 55297, 5120, 61441, 15360, 10240, 58369,
      40961, 27648, 30720, 46081, 20480, 39937, 34817, 17408>>

\* One pass of the body of calculate_crc's loop.
crc_byte_high_nibble_first(crc, byte) ==
    LET tmp1 == crc_table[(crc % 16) + 1]
        c1   == (crc \div 16) % 4096
        c2   == BitXor(BitXor(c1, tmp1), crc_table[((byte \div 16) % 16) + 1])
        tmp2 == crc_table[(c2 % 16) + 1]
        c3   == (c2 \div 16) % 4096
    IN  BitXor(BitXor(c3, tmp2), crc_table[(byte % 16) + 1])

crc_byte(crc, byte) ==
    LET tmp1 == crc_table[(crc % 16) + 1]
        c1   == (crc \div 16) % 4096
        c2   == BitXor(BitXor(c1, tmp1), crc_table[(byte % 16) + 1])
        tmp2 == crc_table[(c2 % 16) + 1]
        c3   == (c2 \div 16) % 4096
    IN  BitXor(BitXor(c3, tmp2), crc_table[((byte \div 16) % 16) + 1])

\* The loop of calculate_crc over blob[lo..hi] from the value crc: the bytes in
\* order, the first half and then the second (which keeps the evaluation shallow).
RECURSIVE crc_loop(_, _, _, _)
crc_loop(blob, lo, hi, crc) ==
    IF lo > hi THEN crc
    ELSE IF lo = hi THEN crc_byte(crc, blob[lo])
    ELSE LET mid  == (lo + hi) \div 2
             left == crc_loop(blob, lo, mid, crc)
         IN  IF left = 0 THEN crc_loop(blob, mid + 1, hi, 0)
             ELSE crc_loop(blob, mid + 1, hi, left)

\* The mutation of calculate_crc that complements the value it returns.
calculate_crc_complemented(blob) == 65535 - crc_loop(blob, 1, Len(blob), 0)

calculate_crc(blob) == crc_loop(blob, 1, Len(blob), 0)

\* to_file_inner's match on last_def: whether new_def is written to `bytes`.
emits_definition_once(ld, new_def) == ~IsSome(ld)

emits_definition(ld, new_def) ==
    IF IsSome(ld) THEN ld[1] # new_def ELSE TRUE

\* to_file, after to_file_inner has returned record_buffer.
to_file_tail_crc_big_endian(record_buffer) ==
    LET hdr == make_header(Len(record_buffer)) \o record_buffer
        crc == calculate_crc(hdr)
    IN  hdr \o <<(crc \div 256) % 256, crc % 256>>

to_file_tail(record_buffer) ==
    LET hdr == make_header(Len(record_buffer)) \o record_buffer
        crc == calculate_crc(hdr)
    IN  hdr \o <<crc % 256, (crc \div 256) % 256>>

(***************************************************************************)
(* The records the encoder is run on.                                      *)
(***************************************************************************)
FieldNames ==
    {"latitude", "longitude", "altitude", "power", "heart_rate", "cadence",
     "distance", "speed"}

Frac(n, d) == [n |-> n, d |-> d]

\* Four assignments of values to all the fields of a record.
Values ==
    << [seconds_since_unix_epoch |-> ToU32(1583801576),
        power |-> 180, heart_rate |-> 120, cadence |-> 90,
        latitude |-> Frac(91, 2), longitude |-> Frac(-245, 2),
        altitude |-> Frac(327, 4), distance |-> Frac(1000, 1), speed |-> Frac(6, 1)],
       [seconds_since_unix_epoch |-> ToU32(1583801577),
        power |-> 181, heart_rate |-> 121, cadence |-> 91,
        latitude |-> Frac(-271, 8), longitude |-> Frac(605, 4),
        altitude |-> Frac(70791, 8), distance |-> Frac(1, 128), speed |-> Frac(97, 16)],
       [seconds_since_unix_epoch |-> ToU32(0),
        power |-> 65535, heart_rate |-> 255, cadence |-> 0,
        latitude |-> Frac(-90, 1), longitude |-> Frac(180, 1),
        altitude |-> Frac(13000, 1), distance |-> Frac(-1, 1), speed |-> Frac(70, 1)],
       [seconds_since_unix_epoch |-> [hi |-> 65535, lo |-> 65535],
        power |-> 4660, heart_rate |-> 1, cadence |-> 254,
        latitude |-> Frac(1, 128), longitude |-> Frac(-1, 128),
        altitude |-> Frac(-4001, 8), distance |-> Frac(85, 2), speed |-> Frac(1, 1024)] >>

Opt(shape, name, x) == IF name \in shape THEN Some(x) ELSE None

FitRecord(shape, v) ==
    [seconds_since_unix_epoch |-> Values[v].seconds_since_unix_epoch,
     power      |-> Opt(shape, "power", Values[v].power),
     heart_rate |-> Opt(shape, "heart_rate", Values[v].heart_rate),
     cadence    |-> Opt(shape, "cadence", Values[v].cadence),
     latitude   |-> Opt(shape, "latitude", Values[v].latitude),
     longitude  |-> Opt(shape, "longitude", Values[v].longitude),
     altitude   |-> Opt(shape, "altitude", Values[v].altitude),
     distance   |-> Opt(shape, "distance", Values[v].distance),
     speed      |-> Opt(shape, "speed", Values[v].speed)]

\* Every shape with every assignment of values.
AllRecords == {FitRecord(s, v) : s \in SUBSET FieldNames, v \in DOMAIN Values}

\* The records that sequences of more than one record are made of.
SeqRecords ==
    {FitRecord({"power", "heart_rate", "cadence"}, 1),
     FitRecord({"power", "heart_rate", "cadence"}, 2),
     FitRecord({"latitude", "longitude", "altitude"}, 2),
     FitRecord(FieldNames, 1),
     FitRecord({"distance", "speed"}, 2),
     FitRecord({}, 3)}

SeqsUpTo(S, n) == UNION {[1..k -> S] : k \in 0..n}

Lists == SeqsUpTo(SeqRecords, MaxRecords) \cup {<<r>> : r \in AllRecords}

(***************************************************************************)
(* to_file as a state machine: one step per pass of to_file_inner's loop,  *)
(* then the rest of to_file.                                               *)
(***************************************************************************)
\* The encoder is idle while a decoder is examined, and the other way round.
FitIdle ==
    /\ list = <<>>
    /\ overflow_checks = FALSE
    /\ pc = "idle"
    /\ idx = 1
    /\ bytes = <<>>
    /\ last_def = None
    /\ out = <<>>
    /\ log = <<>>

DecodeIdle ==
    /\ data = <<>>
    /\ decoder = "none"
    /\ dpc = "idle"
    /\ measurement = None

StoreIdle ==
    /\ db = {}
    /\ mpc = "idle"
    /\ run = 0
    /\ session_key = <<>>
    /\ last_elapsed = <<0, 0>>
    /\ received = <<>>
    /\ hrm_calls = {}
    /\ printed = <<>>

RateIdle ==
    /\ previous = None
    /\ current = None
    /\ width = 0
    /\ rpc = "idle"
    /\ rate_result = None

DisplayIdle ==
    /\ display = None
    /\ memory_lcd = None
    /\ clock = 0
    /\ calls = <<>>

TorqueIdle ==
    /\ accumulated = Frac(0, 32)
    /\ last_torque = None
    /\ readings = <<>>

AggIdle ==
    /\ samples = <<>>
    /\ session_start = 0
    /\ in_progress = None
    /\ last_power = None
    /\ last_csc = None
    /\ records = <<>>
    /\ diagnostics = {}
    /\ apc = "idle"

InitFit ==
    /\ DecodeIdle
    /\ StoreIdle
    /\ RateIdle
    /\ AggIdle
    /\ TorqueIdle
    /\ DisplayIdle
    /\ list \in Lists
    /\ overflow_checks \in BOOLEAN
    /\ pc = "to_file_inner"
    /\ idx = 1
    /\ bytes = <<>>
    /\ last_def = None
    /\ out = <<>>
    /\ log = <<>>

\* One pass of the loop of to_file_inner over a record it can encode.
ToFileInnerStep ==
    /\ pc = "to_file_inner"
    /\ idx <= Len(list)
    /\ ~record_to_bytes_panics(list[idx], overflow_checks)
    /\ LET record  == list[idx]
           new_def == record_def(record)
           emit    == emits_definition(last_def, new_def)
           message == record_to_bytes(record)
       IN  /\ last_def' = Some(IF emit THEN new_def ELSE last_def[1])
           /\ bytes' = (IF emit THEN bytes \o new_def ELSE bytes) \o message
           /\ log' = (IF emit
                      THEN Append(log, [kind |-> "def", rec |-> idx, msg |-> new_def])
                      ELSE log)
                     \o <<[kind |-> "data", rec |-> idx, msg |-> message]>>
    /\ idx' = idx + 1
    /\ UNCHANGED <<list, overflow_checks, pc, out>>
    /\ UNCHANGED decodeVars
    /\ UNCHANGED storeVars
    /\ UNCHANGED rateVars
    /\ UNCHANGED aggVars
    /\ UNCHANGED torqueVars
    /\ UNCHANGED displayVars

\* The pass in which record_to_bytes panics: to_file unwinds and returns nothing.
ToFileInnerPanic ==
    /\ pc = "to_file_inner"
    /\ idx <= Len(list)
    /\ record_to_bytes_panics(list[idx], overflow_checks)
    /\ pc' = "panicked"
    /\ UNCHANGED <<list, overflow_checks, idx, bytes, last_def, out, log>>
    /\ UNCHANGED decodeVars
    /\ UNCHANGED storeVars
    /\ UNCHANGED rateVars
    /\ UNCHANGED aggVars
    /\ UNCHANGED torqueVars
    /\ UNCHANGED displayVars

\* The loop is over: header, messages and CRC are returned.
ToFileReturn ==
    /\ pc = "to_file_inner"
    /\ idx > Len(list)
    /\ out' = to_file_tail(bytes)
    /\ pc' = "done"
    /\ UNCHANGED <<list, overflow_checks, idx, bytes, last_def, log>>
    /\ UNCHANGED decodeVars
    /\ UNCHANGED storeVars
    /\ UNCHANGED rateVars
    /\ UNCHANGED aggVars
    /\ UNCHANGED torqueVars
    /\ UNCHANGED displayVars

NextFit == ToFileInnerStep \/ ToFileInnerPanic \/ ToFileReturn

Spec == InitFit /\ [][NextFit]_vars

(***************************************************************************)
(* main.rs: the decoders.  data[k] of the program is At(data, k); reading  *)
(* at or beyond data.len() panics (index out of bounds) in every build.    *)
(***************************************************************************)
At(d, k) == d[k + 1]

\* data[0] & mask == mask, for a mask of one bit
FlagSet(d, mask) == (At(d, 0) \div mask) % 2 = 1

\* u16::from_le_bytes, i16::from_le_bytes and u32::from_le_bytes (as limbs)
U16FromLeBytes(b0, b1) == b0 + 256 * b1
I16FromLeBytes(b0, b1) ==
    IF b0 + 256 * b1 >= 32768 THEN b0 + 256 * b1 - 65536 ELSE b0 + 256 * b1
U32FromLeBytes(b0, b1, b2, b3) == [hi |-> b2 + 256 * b3, lo |-> b0 + 256 * b1]

\* parse_cycling_power_measurement, lines 355-364
has_pedal_power_balance(d) == FlagSet(d, 1)
has_accumulated_torque(d) == FlagSet(d, 4)
cpm_has_wheel_data(d) == FlagSet(d, 16)
cpm_has_crank_data(d) == FlagSet(d, 32)
power_index == 2
pedal_power_balance_index == 4
accumulated_torque_index(d) ==
    pedal_power_balance_index + (IF has_pedal_power_balance(d) THEN 1 ELSE 0)

wheel_data_index_after_balance(d) ==
    pedal_power_balance_index + 1 + (IF has_accumulated_torque(d) THEN 2 ELSE 0)

wheel_data_index(d) ==
    accumulated_torque_index(d) + (IF has_accumulated_torque(d) THEN 2 ELSE 0)

crank_data_index_always_after_wheel(d) == wheel_data_index(d) + 6

crank_data_index(d) == wheel_data_index(d) + (IF cpm_has_wheel_data(d) THEN 6 ELSE 0)

\* The indices parse_cycling_power_measurement reads once data[0] has been read.
cpm_reads(d) ==
    {0, power_index, power_index + 1}
    \cup (IF has_pedal_power_balance(d) THEN {pedal_power_balance_index} ELSE {})
    \cup (IF has_accumulated_torque(d)
          THEN {accumulated_torque_index(d), accumulated_torque_index(d) + 1} ELSE {})
    \cup (IF cpm_has_wheel_data(d)
          THEN {wheel_data_index(d) + k : k \in 0..5} ELSE {})
    \cup (IF cpm_has_crank_data(d)
          THEN {crank_data_index(d) + k : k \in 0..3} ELSE {})

cpm_panics(d) == IF Len(d) = 0 THEN TRUE ELSE {k \in cpm_reads(d) : k >= Len(d)} # {}

\* parse_cycling_power_measurement, lines 366-424
parse_cycling_power_measurement(d) ==
    [instantaneous_power |->
         I16FromLeBytes(At(d, power_index), At(d, power_index + 1)),
     pedal_power_balance_percent |->
         IF has_pedal_power_balance(d)
         THEN Some(Frac(At(d, pedal_power_balance_index), 2))
         ELSE None,
     accumulated_torque |->
         IF has_accumulated_torque(d)
         THEN Some(<<IF FlagSet(d, 8) THEN "Crank" ELSE "Wheel",
                     Frac(U16FromLeBytes(At(d, accumulated_torque_index(d)),
                                         At(d, accumulated_torque_index(d) + 1)), 32)>>)
         ELSE None,
     wheel_revolution_data |->
         IF cpm_has_wheel_data(d)
         THEN Some([revolution_count |->
                        U32FromLeBytes(At(d, wheel_data_index(d)),
                                       At(d, wheel_data_index(d) + 1),
                                       At(d, wheel_data_index(d) + 2),
                                       At(d, wheel_data_index(d) + 3)),
                    last_revolution_event_time |->
                        Frac(U16FromLeBytes(At(d, wheel_data_index(d) + 4),
                                            At(d, wheel_data_index(d) + 4 + 1)), 2048)])
         ELSE None,
     crank_revolution_data |->
         IF cpm_has_crank_data(d)
         THEN Some([revolution_count |->
                        U32FromLeBytes(At(d, crank_data_index(d)),
                                       At(d, crank_data_index(d) + 1), 0, 0),
                    last_revolution_event_time |->
                        Frac(U16FromLeBytes(At(d, crank_data_index(d) + 2),
                                            At(d, crank_data_index(d) + 2 + 1)), 1024)])
         ELSE None]

(***************************************************************************)
(* parse_hrm, main.rs lines 225-264.                                       *)
(***************************************************************************)
is_16_bit(d) == FlagSet(d, 1)
has_sensor_detection(d) == FlagSet(d, 4)
has_energy_expended(d) == FlagSet(d, 8)
energy_expended_index(d) == 2 + (IF is_16_bit(d) THEN 1 ELSE 0)

rr_interval_index_ignores_energy(d) == 2 + (IF is_16_bit(d) THEN 1 ELSE 0)

rr_interval_index(d) ==
    2 + (IF has_energy_expended(d) THEN 2 ELSE 0) + (IF is_16_bit(d) THEN 1 ELSE 0)

hrm_head_reads_always_16_bit(d) ==
    {0, 1, 2}
    \cup (IF has_energy_expended(d)
          THEN {energy_expended_index(d), energy_expended_index(d) + 1} ELSE {})

\* The indices read for bpm and energy_expended, which are evaluated before
\* the subtraction of line 252.
hrm_head_reads(d) ==
    {0, 1}
    \cup (IF is_16_bit(d) THEN {2} ELSE {})
    \cup (IF has_energy_expended(d)
          THEN {energy_expended_index(d), energy_expended_index(d) + 1} ELSE {})

\* (data.len() - rr_interval_index) / 2: the subtraction is on usize, the
\* division rounds down.
rr_interval_count(d) == (Len(d) - rr_interval_index(d)) \div 2

hrm_reads(d) ==
    hrm_head_reads(d)
    \cup {rr_interval_index(d) + 2 * i : i \in 0..(rr_interval_count(d) - 1)}
    \cup {rr_interval_index(d) + 2 * i + 1 : i \in 0..(rr_interval_count(d) - 1)}

\* An index out of bounds among the reads of lines 226-246 panics; past them
\* data.len() >= rr_interval_index, so that line 252 does not overflow and
\* the loop stays inside data.
hrm_panics(d) ==
    IF Len(d) = 0 THEN TRUE ELSE {k \in hrm_head_reads(d) : k >= Len(d)} # {}

sensor_contact_from_bit1(d) == Some(FlagSet(d, 2))

is_sensor_contact_detected(d) ==
    IF has_sensor_detection(d) THEN Some(FlagSet(d, 2)) ELSE None

parse_hrm(d) ==
    [bpm |->
         IF is_16_bit(d) THEN U16FromLeBytes(At(d, 1), At(d, 2)) ELSE At(d, 1),
     is_sensor_contact_detected |-> is_sensor_contact_detected(d),
     energy_expended |->
         IF has_energy_expended(d)
         THEN Some(U16FromLeBytes(At(d, energy_expended_index(d)),
                                  At(d, energy_expended_index(d) + 1)))
         ELSE None,
     rr_intervals |->
         [i \in 1..rr_interval_count(d) |->
              Frac(U16FromLeBytes(At(d, rr_interval_index(d) + 2 * (i - 1)),
                                  At(d, rr_interval_index(d) + 2 * (i - 1) + 1)),
                   1024)]]

(***************************************************************************)
(* parse_csc_measurement, main.rs lines 286-328.                           *)
(***************************************************************************)
csc_has_wheel_data(d) == FlagSet(d, 1)
csc_has_crank_data(d) == FlagSet(d, 2)
wheel_index == 1

crank_index_after_wheel(d) == wheel_index + 6

crank_index(d) == wheel_index + (IF csc_has_wheel_data(d) THEN 6 ELSE 0)

csc_reads(d) ==
    {0}
    \cup (IF csc_has_wheel_data(d) THEN {wheel_index + k : k \in 0..5} ELSE {})
    \cup (IF csc_has_crank_data(d) THEN {crank_index(d) + k : k \in 0..3} ELSE {})

csc_panics(d) == IF Len(d) = 0 THEN TRUE ELSE {k \in csc_reads(d) : k >= Len(d)} # {}

parse_csc_measurement(d) ==
    [wheel |->
         IF csc_has_wheel_data(d)
         THEN Some([revolution_count |->
                        U32FromLeBytes(At(d, wheel_index), At(d, wheel_index + 1),
                                       At(d, wheel_index + 2), At(d, wheel_index + 3)),
                    last_revolution_event_time |->
                        Frac(U16FromLeBytes(At(d, wheel_index + 4),
                                            At(d, wheel_index + 4 + 1)), 1024)])
         ELSE None,
     crank |->
         IF csc_has_crank_data(d)
         THEN Some([revolution_count |->
                        U32FromLeBytes(At(d, crank_index(d)),
                                       At(d, crank_index(d) + 1), 0, 0),
                    last_revolution_event_time |->
                        Frac(U16FromLeBytes(At(d, crank_index(d) + 2),
                                            At(d, crank_index(d) + 3)), 1024)])
         ELSE None]

(***************************************************************************)
(* The payloads the decoders are run on: every flags byte, every length up *)
(* to MaxPayload, and two fillings of the bytes after the flags in which   *)
(* neighbouring bytes differ.                                              *)
(***************************************************************************)
Filling(p, k) == IF p = 1 THEN (37 * k + 11) % 256 ELSE (255 - 3 * k) % 256

Payload(f, n, p) == [k \in 1..n |-> IF k = 1 THEN f ELSE Filling(p, k - 1)]

Payloads == {Payload(f, n, p) : f \in 0..255, n \in 0..MaxPayload, p \in {1, 2}}

InitDecode ==
    /\ FitIdle
    /\ StoreIdle
    /\ RateIdle
    /\ AggIdle
    /\ TorqueIdle
    /\ DisplayIdle
    /\ data \in Payloads
    /\ decoder = "none"
    /\ dpc = "ready"
    /\ measurement = None

\* parse_cycling_power_measurement(&data) returns.
ParseCpmReturn ==
    /\ dpc = "ready"
    /\ ~cpm_panics(data)
    /\ measurement' = Some(parse_cycling_power_measurement(data))
    /\ decoder' = "cpm"
    /\ dpc' = "returned"
    /\ UNCHANGED data
    /\ UNCHANGED fitVars
    /\ UNCHANGED storeVars
    /\ UNCHANGED rateVars
    /\ UNCHANGED aggVars
    /\ UNCHANGED torqueVars
    /\ UNCHANGED displayVars

\* parse_cycling_power_measurement(&data) indexes past the end of data.
ParseCpmPanic ==
    /\ dpc = "ready"
    /\ cpm_panics(data)
    /\ decoder' = "cpm"
    /\ dpc' = "panicked"
    /\ UNCHANGED <<data, measurement>>
    /\ UNCHANGED fitVars
    /\ UNCHANGED storeVars
    /\ UNCHANGED rateVars
    /\ UNCHANGED aggVars
    /\ UNCHANGED torqueVars
    /\ UNCHANGED displayVars

\* parse_hrm(&data) returns.
ParseHrmReturn ==
    /\ dpc = "ready"
    /\ ~hrm_panics(data)
    /\ measurement' = Some(parse_hrm(data))
    /\ decoder' = "hrm"
    /\ dpc' = "returned"
    /\ UNCHANGED data
    /\ UNCHANGED fitVars
    /\ UNCHANGED storeVars
    /\ UNCHANGED rateVars
    /\ UNCHANGED aggVars
    /\ UNCHANGED torqueVars
    /\ UNCHANGED displayVars

\* parse_hrm(&data) indexes past the end of data.
ParseHrmPanic ==
    /\ dpc = "ready"
    /\ hrm_panics(data)
    /\ decoder' = "hrm"
    /\ dpc' = "panicked"
    /\ UNCHANGED <<data, measurement>>
    /\ UNCHANGED fitVars
    /\ UNCHANGED storeVars
    /\ UNCHANGED rateVars
    /\ UNCHANGED aggVars
    /\ UNCHANGED torqueVars
    /\ UNCHANGED displayVars

\* parse_csc_measurement(&data) returns.
ParseCscReturn ==
    /\ dpc = "ready"
    /\ ~csc_panics(data)
    /\ measurement' = Some(parse_csc_measurement(data))
    /\ decoder' = "csc"
    /\ dpc' = "returned"
    /\ UNCHANGED data
    /\ UNCHANGED fitVars
    /\ UNCHANGED storeVars
    /\ UNCHANGED rateVars
    /\ UNCHANGED aggVars
    /\ UNCHANGED torqueVars
    /\ UNCHANGED displayVars

\* parse_csc_measurement(&data) indexes past the end of data.
ParseCscPanic ==
    /\ dpc = "ready"
    /\ csc_panics(data)
    /\ decoder' = "csc"
    /\ dpc' = "panicked"
    /\ UNCHANGED <<data, measurement>>
    /\ UNCHANGED fitVars
    /\ UNCHANGED storeVars
    /\ UNCHANGED rateVars
    /\ UNCHANGED aggVars
    /\ UNCHANGED torqueVars
    /\ UNCHANGED displayVars

NextDecode ==
    \/ ParseCpmReturn \/ ParseCpmPanic
    \/ ParseHrmReturn \/ ParseHrmPanic
    \/ ParseCscReturn \/ ParseCscPanic

SpecDecode == InitDecode /\ [][NextDecode]_vars

(***************************************************************************)
(* main.rs: the sample store.  main opens the sled database, prints it     *)
(* with print_db, takes the session key from the wall clock and registers  *)
(* the notification handler, which inserts each payload under the key      *)
(* bincode makes of (session_key, start.elapsed(), SUUID::from(n.uuid)).   *)
(* The database file outlives the process, so main runs on it again and    *)
(* again.                                                                  *)
(***************************************************************************)
\* Big-endian integers as bincode's big_endian() configuration writes them;
\* the numbers drawn below are under 2^31.
U16ToBeBytes(x) == <<x \div 256, x % 256>>
U32ToBeBytes(x) ==
    <<x \div 16777216, (x \div Pow16) % 256, (x \div 256) % 256, x % 256>>
U64ToBeBytes(x) == <<0, 0, 0, 0>> \o U32ToBeBytes(x)
U16FromBeBytes(b) == 256 * b[1] + b[2]
U32FromBeBytes(b) == 16777216 * b[1] + Pow16 * b[2] + 256 * b[3] + b[4]
U64FromBeBytes(b) == U32FromBeBytes(SubSeq(b, 5, 8))

\* UUID::B16(x) and SUUID::B16(x) are <<"B16", x>>; B128 is <<"B128", bytes>>.
B16(x) == <<"B16", x>>
HrMeasurementUuid == B16(10807)       \* 0x2A37
PowerMeasurementUuid == B16(10851)    \* 0x2A63, the subscription commented out

\* The characteristics main subscribes to: notifications arrive for these.
subscribed_with_power == {HrMeasurementUuid, PowerMeasurementUuid}

subscribed == {HrMeasurementUuid}

\* serde's Duration is (secs: u64, nanos: u32); an enum is its variant index
\* as u32 and then the variant's fields; a [u8; n] is its n bytes.
serialize_duration(d) == U64ToBeBytes(d[1]) \o U32ToBeBytes(d[2])

serialize_suuid(u) ==
    IF u[1] = "B16" THEN U32ToBeBytes(0) \o U16ToBeBytes(u[2])
    ELSE U32ToBeBytes(1) \o u[2]

\* key_encoder_hrm.serialize(&(session_key, start.elapsed(), SUUID::from(n.uuid)))
key_serialize(sk, e, u) == sk \o serialize_duration(e) \o serialize_suuid(u)

\* key_decoder.deserialize(&z) as (u64, Duration, SUUID)
key_deserialize(z) ==
    [session_key |-> U64FromBeBytes(SubSeq(z, 1, 8)),
     d |-> <<U64FromBeBytes(SubSeq(z, 9, 16)), U32FromBeBytes(SubSeq(z, 17, 20))>>,
     suuid |-> IF U32FromBeBytes(SubSeq(z, 21, 24)) = 0
               THEN B16(U16FromBeBytes(SubSeq(z, 25, 26)))
               ELSE <<"B128", SubSeq(z, 25, Len(z))>>]

\* sled orders its keys as byte strings: lexicographically, a proper prefix
\* first.
RECURSIVE BytesLess(_, _)
BytesLess(a, b) ==
    IF b = <<>> THEN FALSE
    ELSE IF a = <<>> THEN TRUE
    ELSE IF a[1] # b[1] THEN a[1] < b[1]
    ELSE BytesLess(Tail(a), Tail(b))

\* db.insert(key, value): the entry of an existing key is replaced.
db_insert_keeps_first(tree, key, value) ==
    IF \E e \in tree : e[1] = key THEN tree ELSE tree \cup {<<key, value>>}

db_insert(tree, key, value) ==
    {e \in tree : e[1] # key} \cup {<<key, value>>}

DbKeys(tree) == {e[1] : e \in tree}
DbGet(tree, key) == (CHOOSE e \in tree : e[1] = key)[2]

\* db.iter(): the keys print_db has not reached yet, and the least of them.
IterRemaining == DbKeys(db) \ {printed[i].key : i \in 1..Len(printed)}
IterNext == CHOOSE k \in IterRemaining : \A j \in IterRemaining \ {k} : BytesLess(k, j)

\* What the environment hands to the program: the wall clock in seconds
\* (SystemTime is not monotonic), the monotonic start.elapsed(), and heart
\* rate payloads.
ClockValues == {1583808767, 1583808768}     \* 0x5E6700FF, 0x5E670100
ElapsedValues == {<<0, 255>>, <<0, 256>>, <<1, 0>>}
HrmPayloads == {<<0, 70>>, <<22, 71, 10, 1>>}

DurationLeq(a, b) == IF a[1] = b[1] THEN a[2] <= b[2] ELSE a[1] < b[1]

InitStore ==
    /\ FitIdle
    /\ DecodeIdle
    /\ RateIdle
    /\ AggIdle
    /\ TorqueIdle
    /\ DisplayIdle
    /\ db = {}
    /\ mpc = "stopped"
    /\ run = 0
    /\ session_key = <<>>
    /\ last_elapsed = <<0, 0>>
    /\ received = <<>>
    /\ hrm_calls = {}
    /\ printed = <<>>

\* main starts: sled::open, then print_db begins to iterate.
MainOpen ==
    /\ mpc = "stopped"
    /\ run < MaxRuns
    /\ run' = run + 1
    /\ mpc' = "print_db"
    /\ printed' = <<>>
    /\ UNCHANGED <<db, session_key, last_elapsed, received, hrm_calls>>
    /\ UNCHANGED fitVars
    /\ UNCHANGED decodeVars
    /\ UNCHANGED rateVars
    /\ UNCHANGED aggVars
    /\ UNCHANGED torqueVars
    /\ UNCHANGED displayVars

\* One pass of print_db's loop: the next entry in key order is decoded and
\* its value is handed to parse_hrm.
PrintDbStep ==
    /\ mpc = "print_db"
    /\ IterRemaining # {}
    /\ LET k == IterNext
           v == DbGet(db, k)
           t == key_deserialize(k)
       IN  /\ printed' = Append(printed,
                  [key |-> k, session_key |-> t.session_key, d |-> t.d,
                   suuid |-> t.suuid, hrm |-> parse_hrm(v)])
           /\ hrm_calls' = hrm_calls \cup {[site |-> "print_db", uuid |-> t.suuid]}
    /\ UNCHANGED <<db, mpc, run, session_key, last_elapsed, received>>
    /\ UNCHANGED fitVars
    /\ UNCHANGED decodeVars
    /\ UNCHANGED rateVars
    /\ UNCHANGED aggVars
    /\ UNCHANGED torqueVars
    /\ UNCHANGED displayVars

\* print_db is over: main takes start and session_key, connects, subscribes,
\* registers the handler and parks.
MainSubscribe ==
    /\ mpc = "print_db"
    /\ IterRemaining = {}
    /\ \E now \in ClockValues : session_key' = U64ToBeBytes(now)
    /\ last_elapsed' = <<0, 0>>
    /\ mpc' = "parked"
    /\ UNCHANGED <<db, run, received, hrm_calls, printed>>
    /\ UNCHANGED fitVars
    /\ UNCHANGED decodeVars
    /\ UNCHANGED rateVars
    /\ UNCHANGED aggVars
    /\ UNCHANGED torqueVars
    /\ UNCHANGED displayVars

\* The handler of hrm.on_notification runs on a notification n.
OnNotification ==
    /\ mpc = "parked"
    /\ Len(received) < MaxNotifications
    /\ \E uuid \in subscribed, value \in HrmPayloads, elapsed \in ElapsedValues :
           /\ DurationLeq(last_elapsed, elapsed)
           /\ LET key == key_serialize(session_key, elapsed, uuid)
              IN  /\ db' = db_insert(db, key, value)
                  /\ received' = Append(received,
                         [run |-> run, key |-> key, value |-> value,
                          elapsed |-> elapsed, uuid |-> uuid])
           /\ hrm_calls' = hrm_calls \cup {[site |-> "on_notification", uuid |-> uuid]}
           /\ last_elapsed' = elapsed
    /\ UNCHANGED <<mpc, run, session_key, printed>>
    /\ UNCHANGED fitVars
    /\ UNCHANGED decodeVars
    /\ UNCHANGED rateVars
    /\ UNCHANGED aggVars
    /\ UNCHANGED torqueVars
    /\ UNCHANGED displayVars

\* thread::park() never returns: the process ends when it is killed.
MainKilled ==
    /\ mpc = "parked"
    /\ mpc' = "stopped"
    /\ UNCHANGED <<db, run, session_key, last_elapsed, received, hrm_calls, printed>>
    /\ UNCHANGED fitVars
    /\ UNCHANGED decodeVars
    /\ UNCHANGED rateVars
    /\ UNCHANGED aggVars
    /\ UNCHANGED torqueVars
    /\ UNCHANGED displayVars

NextStore == MainOpen \/ PrintDbStep \/ MainSubscribe \/ OnNotification \/ MainKilled

SpecStore == InitStore /\ [][NextStore]_vars

(***************************************************************************)
(* The rollover-safe rate calculator.  Its code is not among the sources,  *)
(* so it is taken from section 4.2 of the specification:                   *)
(*   rate(previous, current) -> optional (rpm, delta_count)                *)
(* on two RevolutionData as the decoders produce them.  The event times    *)
(* are multiples of 1/1024 s and kept as fractions over a common           *)
(* denominator; rpm is kept as the exact fraction.                         *)
(***************************************************************************)
SecondsPeriod == 64

\* current.revolution_count - previous.revolution_count, modulo the register
\* width of the source: 16 bits for a crank, 32 bits for a wheel.
delta_count(prev, cur, w) ==
    IF w = 16
    THEN [hi |-> 0, lo |-> (cur.revolution_count.lo - prev.revolution_count.lo) % Pow16]
    ELSE U32WrappingSub(cur.revolution_count, prev.revolution_count)

\* current.last_event_time - previous.last_event_time, plus the period of
\* 64 s if the raw subtraction is negative.
delta_time_without_period(prev, cur) ==
    [n |-> cur.last_revolution_event_time.n - prev.last_revolution_event_time.n,
     d |-> cur.last_revolution_event_time.d]

delta_time(prev, cur) ==
    LET raw == cur.last_revolution_event_time.n - prev.last_revolution_event_time.n
        d   == cur.last_revolution_event_time.d
    IN  [n |-> IF raw < 0 THEN raw + SecondsPeriod * d ELSE raw, d |-> d]

\* Absent when delta_count == 0 or delta_time <= 0, else
\* rpm = delta_count / delta_time * 60.
rate(prev, cur, w) ==
    LET dc == delta_count(prev, cur, w)
        dt == delta_time(prev, cur)
    IN  IF dc.hi = 0 /\ dc.lo = 0 THEN None
        ELSE IF dt.n <= 0 THEN None
        ELSE Some([rpm |-> Frac((dc.hi * Pow16 + dc.lo) * 60 * dt.d, dt.n),
                   delta_count |-> dc])

\* The RevolutionData the calculator is given: counts around the wrap of the
\* 16-bit and of the 32-bit register, event times around the wrap of the
\* 64 s period.
RateCounts ==
    {ToU32(0), ToU32(100), ToU32(105), ToU32(65535),
     [hi |-> 65535, lo |-> 65533], [hi |-> 65535, lo |-> 65535]}
RateTimes == {0, 500, 60000, 65535}
RevolutionDatas ==
    {[revolution_count |-> c, last_revolution_event_time |-> Frac(t, 1024)] :
         c \in RateCounts, t \in RateTimes}

\* A 16-bit source has counts below 2^16.  Between two samples the count
\* advances by less than half the 16-bit register, possibly across the wrap
\* of its register: the exact fraction kept for rpm has room for that.
RateInputs ==
    {t \in RevolutionDatas \X RevolutionDatas \X {16, 32} :
         /\ t[3] = 16 => (t[1].revolution_count.hi = 0 /\ t[2].revolution_count.hi = 0)
         /\ delta_count(t[1], t[2], t[3]).hi = 0
         /\ delta_count(t[1], t[2], t[3]).lo < 32768}

InitRate ==
    /\ FitIdle
    /\ DecodeIdle
    /\ StoreIdle
    /\ AggIdle
    /\ TorqueIdle
    /\ DisplayIdle
    /\ \E t \in RateInputs : previous = t[1] /\ current = t[2] /\ width = t[3]
    /\ rpc = "ready"
    /\ rate_result = None

\* rate(previous, current) returns absence.
RateAbsent ==
    /\ rpc = "ready"
    /\ rate(previous, current, width) = None
    /\ rate_result' = None
    /\ rpc' = "returned"
    /\ UNCHANGED <<previous, current, width>>
    /\ UNCHANGED fitVars
    /\ UNCHANGED decodeVars
    /\ UNCHANGED storeVars
    /\ UNCHANGED aggVars
    /\ UNCHANGED torqueVars
    /\ UNCHANGED displayVars

\* rate(previous, current) returns (rpm, delta_count).
RatePresent ==
    /\ rpc = "ready"
    /\ rate(previous, current, width) # None
    /\ rate_result' = rate(previous, current, width)
    /\ rpc' = "returned"
    /\ UNCHANGED <<previous, current, width>>
    /\ UNCHANGED fitVars
    /\ UNCHANGED decodeVars
    /\ UNCHANGED storeVars
    /\ UNCHANGED aggVars
    /\ UNCHANGED torqueVars
    /\ UNCHANGED displayVars

NextRate == RateAbsent \/ RatePresent

SpecRate == InitRate /\ [][NextRate]_vars

(***************************************************************************)
(* The session aggregator.  Its code is not among the sources, so it is    *)
(* taken from section 4.4 of the specification: a fold of the RawSamples   *)
(* of one session, in storage order, into one FitRecord per second.  The   *)
(* algorithm of section 4.4 has no step at the end of the input; section 9 *)
(* notes that the aggregator as observed never flushes the in-progress     *)
(* record.                                                                 *)
(***************************************************************************)
CscMeasurementUuid == B16(10843)      \* 0x2A5B
BatteryLevelUuid == B16(10777)        \* 0x2A19, a characteristic of no decoder

\* A record with no optional field populated.
empty_record(second) ==
    [seconds_since_unix_epoch |-> ToU32(second),
     power |-> None, heart_rate |-> None, cadence |-> None,
     latitude |-> None, longitude |-> None, altitude |-> None,
     distance |-> None, speed |-> None]

\* Step 2: session_start_epoch_seconds + floor(elapsed_seconds).
sample_second(start, sample) == start + sample.elapsed[1]

\* Step 3: the in-progress record is finalized; an unset power is back-filled
\* with last_power.
finalize_without_backfill(r, lp) == r

finalize(r, lp) == IF r.power = None THEN [r EXCEPT !.power = lp] ELSE r

\* round(rpm), halves away from zero, for rpm >= 0.
round_rpm(rpm) == (2 * rpm.n + rpm.d) \div (2 * rpm.d)

\* Step 4, CSC: the rate of the crank channel against the previous sample.
crank_rate(prev, m) ==
    IF prev = None THEN None
    ELSE IF prev[1].crank = None THEN None
    ELSE IF m.crank = None THEN None
    ELSE rate(prev[1].crank[1], m.crank[1], 16)

\* Step 4: the fields a sample sets in the in-progress record.
populate(r, prev, sample) ==
    IF sample.characteristic_id = HrMeasurementUuid
    THEN [r EXCEPT !.heart_rate = Some(parse_hrm(sample.payload).bpm % 256)]
    ELSE IF sample.characteristic_id = PowerMeasurementUuid
    THEN [r EXCEPT !.power =
              Some(parse_cycling_power_measurement(sample.payload).instantaneous_power
                       % Pow16)]
    ELSE IF sample.characteristic_id = CscMeasurementUuid
    THEN LET x == crank_rate(prev, parse_csc_measurement(sample.payload))
         IN  IF x = None THEN r
             ELSE [r EXCEPT !.cadence = Some(round_rpm(x[1].rpm) % 256)]
    ELSE r

\* The samples of a stored session: heart rate, power, crank revolutions and
\* a characteristic without a decoder, at elapsed times <<secs, nanos>>.
SampleElapsed == {<<0, 500000000>>, <<1, 0>>, <<1, 999999999>>, <<3, 250000000>>}
SamplePayloads ==
    {<<HrMeasurementUuid, <<0, 70>> >>,
     <<HrMeasurementUuid, <<1, 44, 1>> >>,
     <<PowerMeasurementUuid, <<0, 0, 180, 0>> >>,
     <<PowerMeasurementUuid, <<0, 0, 56, 255>> >>,
     <<CscMeasurementUuid, <<2, 100, 0, 232, 3>> >>,
     <<CscMeasurementUuid, <<2, 102, 0, 232, 7>> >>,
     <<BatteryLevelUuid, <<90>> >>}
RawSamples ==
    {[elapsed |-> e, characteristic_id |-> p[1], payload |-> p[2]] :
         e \in SampleElapsed, p \in SamplePayloads}

\* The storage order: elapsed time does not decrease.  The crank count of a
\* session does not go back.
FollowsInSession(sample) ==
    /\ samples # <<>> => DurationLeq(samples[Len(samples)].elapsed, sample.elapsed)
    /\ (sample.characteristic_id = CscMeasurementUuid /\ last_csc # None) =>
           parse_csc_measurement(sample.payload).crank[1].revolution_count.lo
               >= last_csc[1].crank[1].revolution_count.lo

InitAggregate ==
    /\ FitIdle
    /\ DecodeIdle
    /\ StoreIdle
    /\ RateIdle
    /\ TorqueIdle
    /\ DisplayIdle
    /\ samples = <<>>
    /\ session_start \in ClockValues
    /\ in_progress = None
    /\ last_power = None
    /\ last_csc = None
    /\ records = <<>>
    /\ diagnostics = {}
    /\ apc = "aggregating"

\* Steps 2 to 4 for the next RawSample of the session.
AggregateSample ==
    /\ apc = "aggregating"
    /\ Len(samples) < MaxSamples
    /\ \E sample \in RawSamples :
           /\ FollowsInSession(sample)
           /\ LET second == sample_second(session_start, sample)
                  same   == IF in_progress = None THEN FALSE
                            ELSE in_progress[1].seconds_since_unix_epoch = ToU32(second)
                  r      == IF same THEN in_progress[1] ELSE empty_record(second)
                  id     == sample.characteristic_id
              IN  /\ records' = IF in_progress # None /\ ~same
                                THEN Append(records, finalize(in_progress[1], last_power))
                                ELSE records
                  /\ in_progress' = Some(populate(r, last_csc, sample))
                  /\ last_power' = IF id = PowerMeasurementUuid
                                   THEN populate(r, last_csc, sample).power
                                   ELSE last_power
                  /\ last_csc' = IF id = CscMeasurementUuid
                                 THEN Some(parse_csc_measurement(sample.payload))
                                 ELSE last_csc
                  /\ diagnostics' =
                         IF id \in {HrMeasurementUuid, PowerMeasurementUuid,
                                    CscMeasurementUuid}
                         THEN diagnostics ELSE diagnostics \cup {id}
           /\ samples' = Append(samples, sample)
    /\ UNCHANGED <<session_start, apc>>
    /\ UNCHANGED fitVars
    /\ UNCHANGED decodeVars
    /\ UNCHANGED storeVars
    /\ UNCHANGED rateVars
    /\ UNCHANGED torqueVars
    /\ UNCHANGED displayVars

\* The input is over: the records produced so far go to the encoder.
AggregateEnd ==
    /\ apc = "aggregating"
    /\ apc' = "done"
    /\ UNCHANGED <<samples, session_start, in_progress, last_power, last_csc, records,
                   diagnostics>>
    /\ UNCHANGED fitVars
    /\ UNCHANGED decodeVars
    /\ UNCHANGED storeVars
    /\ UNCHANGED rateVars
    /\ UNCHANGED torqueVars
    /\ UNCHANGED displayVars

NextAggregate == AggregateSample \/ AggregateEnd

SpecAggregate == InitAggregate /\ [][NextAggregate]_vars

(***************************************************************************)
(* The torque accumulator.  Its code is not among the sources, so it is    *)
(* taken from section 4.3 of the specification.  A reading is the          *)
(* accumulated torque a cycling power measurement carries: a multiple of   *)
(* 1/32 N.m in [0, 2048).                                                  *)
(***************************************************************************)
TorquePeriod == 2048

\* delta = b - a, plus 2048 if a > b (the register wrapped).
torque_delta_without_wrap(a, b) == [n |-> b.n - a.n, d |-> a.d]

torque_delta(a, b) ==
    [n |-> IF a.n > b.n THEN b.n - a.n + TorquePeriod * a.d ELSE b.n - a.n,
     d |-> a.d]

\* The readings: the raw 16-bit register over 32.
TorqueRaws == {0, 320, 1000, 65280, 65535}
TorqueReadings == {Frac(raw, 32) : raw \in TorqueRaws}

InitTorque ==
    /\ FitIdle
    /\ DecodeIdle
    /\ StoreIdle
    /\ RateIdle
    /\ AggIdle
    /\ DisplayIdle
    /\ accumulated = Frac(0, 32)
    /\ last_torque = None
    /\ readings = <<>>

\* The first reading of a stream only seeds the previous value.
TorqueFirstReading ==
    /\ last_torque = None
    /\ Len(readings) < MaxReadings
    /\ \E b \in TorqueReadings :
           /\ last_torque' = Some(b)
           /\ readings' = Append(readings, b)
    /\ UNCHANGED accumulated
    /\ UNCHANGED fitVars
    /\ UNCHANGED decodeVars
    /\ UNCHANGED storeVars
    /\ UNCHANGED rateVars
    /\ UNCHANGED aggVars
    /\ UNCHANGED displayVars

\* A reading b after a previous reading a: accumulated += delta.
TorqueReading ==
    /\ last_torque # None
    /\ Len(readings) < MaxReadings
    /\ \E b \in TorqueReadings :
           /\ accumulated' =
                  [n |-> accumulated.n + torque_delta(last_torque[1], b).n,
                   d |-> accumulated.d]
           /\ last_torque' = Some(b)
           /\ readings' = Append(readings, b)
    /\ UNCHANGED fitVars
    /\ UNCHANGED decodeVars
    /\ UNCHANGED storeVars
    /\ UNCHANGED rateVars
    /\ UNCHANGED aggVars
    /\ UNCHANGED displayVars

NextTorque == TorqueFirstReading \/ TorqueReading

SpecTorque == InitTorque /\ [][NextTorque]_vars

(***************************************************************************)
(* display.rs: the Display, its WorkoutDisplay and what the MemoryLcd      *)
(* shows.  An Instant is a number of seconds since Display::new; texts are *)
(* sequences of characters.  The MemoryLcd is the text in each place a     *)
(* drawing writes to; the fixed captions, the wall-clock time and the      *)
(* rectangle are the same in every workout drawing and are left out.       *)
(***************************************************************************)

\* Duration::from_secs(5) of none_if_stale.
StaleAfterSecs == 5

\* The decimal digits of n >= 0.
RECURSIVE Digits(_)
Digits(n) ==
    LET chars == <<"0", "1", "2", "3", "4", "5", "6", "7", "8", "9">>
    IN  IF n < 10 THEN <<chars[n + 1]>>
        ELSE Digits(n \div 10) \o <<chars[(n % 10) + 1]>>

RECURSIVE PadZero(_, _)
PadZero(s, w) == IF Len(s) >= w THEN s ELSE PadZero(<<"0">> \o s, w)

\* format!("{:0w}", x) for an integer x: the sign counts in the width.
format_zero_padded(x, w) ==
    IF x < 0 THEN <<"-">> \o PadZero(Digits(-x), w - 1)
    ELSE PadZero(Digits(x), w)

\* format!("{:.2}", x) for a fraction x >= 0: the nearest hundredth, a tie
\* going to the even one.
format_two_places(x) ==
    LET q == (100 * x.n) \div x.d
        r == (100 * x.n) % x.d
        h == IF 2 * r > x.d THEN q + 1
             ELSE IF 2 * r = x.d /\ q % 2 = 1 THEN q + 1 ELSE q
    IN  Digits(h \div 100) \o <<".">> \o PadZero(Digits(h % 100), 2)

\* ml = 10.38 / 60.0 * external_energy + 4.9 * crank_revolutions;
\* ml / 1000.0 * 4.74, as a fraction.
metabolic_cost_in_kcal(external_energy, crank_revolutions) ==
    Frac((1038 * external_energy.n
            + 29400 * crank_revolutions * external_energy.d) * 474,
         600000000 * external_energy.d)

\* The mutation of none_if_stale that drops a value exactly five seconds old.
none_if_stale_at_five(x, t) ==
    IF t - x[2] >= StaleAfterSecs THEN None ELSE Some(x)

\* none_if_stale(x) at the instant t, x = (value, instant of the update).
none_if_stale(x, t) ==
    IF t - x[2] > StaleAfterSecs THEN None ELSE Some(x)

\* self.f.and_then(none_if_stale)
and_then_none_if_stale(o, t) ==
    IF IsSome(o) THEN none_if_stale(o[1], t) ELSE None

Dashes == <<"-", "-", "-">>
NoGps == <<"N", "O", " ", "G", "P", "S">>
NoFix == <<"N", "O", " ", "F", "I", "X">>
Fix == <<"F", "I", "X">>

WorkoutSlots ==
    {"power", "cadence", "heart_rate", "kcal", "speed", "distance",
     "elapsed", "gps"}
LcdSlots == WorkoutSlots \cup {"msg", "options"}

\* memory_lcd.clear(BinaryColor::Off), and the MemoryLcd after construction.
lcd_clear == [slot \in LcdSlots |-> <<>>]

\* Display::new(start_instant), with WorkoutDisplay::new(start_instant)
Display_new(start_instant) ==
    [workout |->
         [power |-> None, cadence |-> None, heart_rate |-> None,
          external_energy |-> Frac(0, 1), crank_count |-> None,
          speed |-> None, distance |-> Frac(0, 1), gps_fix |-> None,
          start_instant |-> start_instant],
     has_rendered |-> FALSE]

\* The texts WorkoutDisplay::draw writes at the instant t.
workout_texts(self, t) ==
    LET elapsed_secs == t - self.start_instant
        power        == and_then_none_if_stale(self.power, t)
        cadence      == and_then_none_if_stale(self.cadence, t)
        heart_rate   == and_then_none_if_stale(self.heart_rate, t)
        speed        == and_then_none_if_stale(self.speed, t)
        gps_fix      == and_then_none_if_stale(self.gps_fix, t)
        revolutions  == IF IsSome(self.crank_count) THEN self.crank_count[1]
                        ELSE (elapsed_secs * 80) \div 60
        kcal         == metabolic_cost_in_kcal(self.external_energy,
                                               revolutions)
    IN  [power      |-> IF IsSome(power)
                        THEN format_zero_padded(power[1][1], 3) ELSE Dashes,
         cadence    |-> IF IsSome(cadence)
                        THEN format_zero_padded(cadence[1][1], 3) ELSE Dashes,
         heart_rate |-> IF IsSome(heart_rate)
                        THEN format_zero_padded(heart_rate[1][1], 3)
                        ELSE Dashes,
         kcal       |-> format_zero_padded(CastU16(kcal.n, kcal.d), 4),
         speed      |-> IF IsSome(speed)
                        THEN format_two_places(
                                 Frac(speed[1][1].n * 60 * 60,
                                      speed[1][1].d * 1000))
                        ELSE Dashes,
         distance   |-> format_two_places(
                            Frac(self.distance.n, self.distance.d * 1000)),
         elapsed    |-> format_zero_padded(elapsed_secs \div 3600, 2)
                        \o <<":">>
                        \o format_zero_padded((elapsed_secs \div 60) % 60, 2)
                        \o <<":">>
                        \o format_zero_padded(elapsed_secs % 60, 2),
         gps        |-> IF ~IsSome(gps_fix) THEN NoGps
                        ELSE IF gps_fix[1][1] THEN Fix ELSE NoFix]

\* WorkoutDisplay::draw(self, target): each text replaces what its place held.
workout_draw(self, target, t) ==
    [slot \in LcdSlots |->
        IF slot \in WorkoutSlots THEN workout_texts(self, t)[slot]
        ELSE target[slot]]

\* MsgDisplay::new(s).draw(target)
msg_draw(s, target) == [target EXCEPT !["msg"] = s]

\* OptionDisplay::new(opts).draw(target): "1: a", "2: b", ... and the numbers.
RECURSIVE option_lines(_, _)
option_lines(opts, i) ==
    IF i > Len(opts) THEN <<>>
    ELSE Digits(i) \o <<":", " ">> \o opts[i] \o <<"/">> \o Digits(i)
         \o <<"/">> \o option_lines(opts, i + 1)

option_draw(opts, target) ==
    IF Len(opts) = 0 THEN target
    ELSE [target EXCEPT !["options"] = option_lines(opts, 1)]

\* The mutation of render_msg that forgets to reset has_rendered.
render_msg_keeping_has_rendered(self, lcd, s) ==
    [display    |-> self,
     memory_lcd |-> msg_draw(s, lcd_clear),
     cleared    |-> TRUE]

\* Display::render_msg(&mut self, s)
render_msg(self, lcd, s) ==
    [display    |-> [self EXCEPT !.has_rendered = FALSE],
     memory_lcd |-> msg_draw(s, lcd_clear),
     cleared    |-> TRUE]

\* Display::render_options(&mut self, options)
render_options(self, lcd, options) ==
    [display    |-> [self EXCEPT !.has_rendered = FALSE],
     memory_lcd |-> option_draw(options, lcd_clear),
     cleared    |-> TRUE]

\* The mutation of render that stores the values it purged for the drawing.
render_storing_purged(self, lcd, t) ==
    LET cleared == ~self.has_rendered
        target  == IF cleared THEN lcd_clear ELSE lcd
        purged  == [self.workout EXCEPT
                       !.power = and_then_none_if_stale(@, t),
                       !.cadence = and_then_none_if_stale(@, t),
                       !.heart_rate = and_then_none_if_stale(@, t),
                       !.speed = and_then_none_if_stale(@, t),
                       !.gps_fix = and_then_none_if_stale(@, t)]
    IN  [display    |-> [workout |-> purged, has_rendered |-> TRUE],
         memory_lcd |-> workout_draw(self.workout, target, t),
         cleared    |-> cleared]

\* Display::render(&mut self), at the instant t
render(self, lcd, t) ==
    LET cleared == ~self.has_rendered
        target  == IF cleared THEN lcd_clear ELSE lcd
    IN  [display    |-> [self EXCEPT !.has_rendered = TRUE],
         memory_lcd |-> workout_draw(self.workout, target, t),
         cleared    |-> cleared]

\* x.map(|x| (x, Instant::now()))
map_with_instant(x, t) == IF IsSome(x) THEN Some(<<x[1], t>>) ELSE None

\* The seconds that can pass between two calls.
TimeSteps == {1, 5}

InitDisplay ==
    /\ FitIdle
    /\ DecodeIdle
    /\ StoreIdle
    /\ RateIdle
    /\ AggIdle
    /\ TorqueIdle
    /\ display = Display_new(0)
    /\ memory_lcd = lcd_clear
    /\ clock = 0
    /\ calls = <<>>

\* A call of the WorkoutDisplay setter op with arg, giving the workout w.
Updated(op, arg, t, w) ==
    /\ Len(calls) < MaxCalls
    /\ clock' = t
    /\ display' = [display EXCEPT !.workout = w]
    /\ calls' = Append(calls,
                       [op |-> op, arg |-> arg, at |-> t, cleared |-> FALSE])
    /\ UNCHANGED memory_lcd

\* A call of a render method with the outcome r.
Rendered(op, arg, t, r) ==
    /\ Len(calls) < MaxCalls
    /\ clock' = t
    /\ display' = r.display
    /\ memory_lcd' = r.memory_lcd
    /\ calls' = Append(calls,
                       [op |-> op, arg |-> arg, at |-> t,
                        cleared |-> r.cleared])

UpdatePower ==
    /\ \E dt \in TimeSteps, power \in {None, Some(180), Some(-5)} :
           Updated("update_power", power, clock + dt,
                   [display.workout EXCEPT
                       !.power = map_with_instant(power, clock + dt)])
    /\ UNCHANGED fitVars
    /\ UNCHANGED decodeVars
    /\ UNCHANGED storeVars
    /\ UNCHANGED rateVars
    /\ UNCHANGED aggVars
    /\ UNCHANGED torqueVars

UpdateCadence ==
    /\ \E dt \in TimeSteps, cadence \in {Some(90)} :
           Updated("update_cadence", cadence, clock + dt,
                   [display.workout EXCEPT
                       !.cadence = map_with_instant(cadence, clock + dt)])
    /\ UNCHANGED fitVars
    /\ UNCHANGED decodeVars
    /\ UNCHANGED storeVars
    /\ UNCHANGED rateVars
    /\ UNCHANGED aggVars
    /\ UNCHANGED torqueVars

UpdateHeartRate ==
    /\ \E dt \in TimeSteps, heart_rate \in {Some(120)} :
           Updated("update_heart_rate", heart_rate, clock + dt,
                   [display.workout EXCEPT
                       !.heart_rate =
                           map_with_instant(heart_rate, clock + dt)])
    /\ UNCHANGED fitVars
    /\ UNCHANGED decodeVars
    /\ UNCHANGED storeVars
    /\ UNCHANGED rateVars
    /\ UNCHANGED aggVars
    /\ UNCHANGED torqueVars

UpdateExternalEnergy ==
    /\ \E dt \in TimeSteps, external_energy \in {Frac(1000, 1)} :
           Updated("update_external_energy", external_energy, clock + dt,
                   [display.workout EXCEPT
                       !.external_energy = external_energy])
    /\ UNCHANGED fitVars
    /\ UNCHANGED decodeVars
    /\ UNCHANGED storeVars
    /\ UNCHANGED rateVars
    /\ UNCHANGED aggVars
    /\ UNCHANGED torqueVars

UpdateCrankCount ==
    /\ \E dt \in TimeSteps, crank_count \in {100} :
           Updated("update_crank_count", crank_count, clock + dt,
                   [display.workout EXCEPT
                       !.crank_count = Some(crank_count)])
    /\ UNCHANGED fitVars
    /\ UNCHANGED decodeVars
    /\ UNCHANGED storeVars
    /\ UNCHANGED rateVars
    /\ UNCHANGED aggVars
    /\ UNCHANGED torqueVars

UpdateSpeed ==
    /\ \E dt \in TimeSteps, speed \in {Some(Frac(5, 2))} :
           Updated("update_speed", speed, clock + dt,
                   [display.workout EXCEPT
                       !.speed = map_with_instant(speed, clock + dt)])
    /\ UNCHANGED fitVars
    /\ UNCHANGED decodeVars
    /\ UNCHANGED storeVars
    /\ UNCHANGED rateVars
    /\ UNCHANGED aggVars
    /\ UNCHANGED torqueVars

UpdateDistance ==
    /\ \E dt \in TimeSteps, distance \in {Frac(1500, 1)} :
           Updated("update_distance", distance, clock + dt,
                   [display.workout EXCEPT !.distance = distance])
    /\ UNCHANGED fitVars
    /\ UNCHANGED decodeVars
    /\ UNCHANGED storeVars
    /\ UNCHANGED rateVars
    /\ UNCHANGED aggVars
    /\ UNCHANGED torqueVars

SetGpsFix ==
    /\ \E dt \in TimeSteps, has_fix \in {TRUE, FALSE} :
           Updated("set_gps_fix", has_fix, clock + dt,
                   [display.workout EXCEPT
                       !.gps_fix = Some(<<has_fix, clock + dt>>)])
    /\ UNCHANGED fitVars
    /\ UNCHANGED decodeVars
    /\ UNCHANGED storeVars
    /\ UNCHANGED rateVars
    /\ UNCHANGED aggVars
    /\ UNCHANGED torqueVars

RenderMsg ==
    /\ \E dt \in TimeSteps, s \in {<<"H", "I">>} :
           Rendered("render_msg", s, clock + dt,
                    render_msg(display, memory_lcd, s))
    /\ UNCHANGED fitVars
    /\ UNCHANGED decodeVars
    /\ UNCHANGED storeVars
    /\ UNCHANGED rateVars
    /\ UNCHANGED aggVars
    /\ UNCHANGED torqueVars

RenderOptions ==
    /\ \E dt \in TimeSteps, options \in {<<<<"A">>, <<"B">>>>} :
           Rendered("render_options", options, clock + dt,
                    render_options(display, memory_lcd, options))
    /\ UNCHANGED fitVars
    /\ UNCHANGED decodeVars
    /\ UNCHANGED storeVars
    /\ UNCHANGED rateVars
    /\ UNCHANGED aggVars
    /\ UNCHANGED torqueVars

Render ==
    /\ \E dt \in TimeSteps :
           Rendered("render", None, clock + dt,
                    render(display, memory_lcd, clock + dt))
    /\ UNCHANGED fitVars
    /\ UNCHANGED decodeVars
    /\ UNCHANGED storeVars
    /\ UNCHANGED rateVars
    /\ UNCHANGED aggVars
    /\ UNCHANGED torqueVars

NextDisplay ==
    \/ UpdatePower
    \/ UpdateCadence
    \/ UpdateHeartRate
    \/ UpdateExternalEnergy
    \/ UpdateCrankCount
    \/ UpdateSpeed
    \/ UpdateDistance
    \/ SetGpsFix
    \/ RenderMsg
    \/ RenderOptions
    \/ Render

SpecDisplay == InitDisplay /\ [][NextDisplay]_vars

(***************************************************************************)
(* Vocabulary of the properties below.                                     *)
(***************************************************************************)
\* The shape of a record: its populated optional fields.
Shape(r) == {f \in FieldNames : IsSome(r[f])}

\* The optional fields in the order the format lists them, with the field
\* definition number, byte size and base type of each.
FieldTable ==
    << <<"latitude", 0, 4, 133>>, <<"longitude", 1, 4, 133>>,
       <<"altitude", 2, 2, 132>>, <<"power", 7, 2, 132>>,
       <<"heart_rate", 3, 1, 2>>, <<"cadence", 4, 1, 2>>,
       <<"distance", 5, 4, 134>>, <<"speed", 6, 2, 132>> >>

RECURSIVE Flatten(_)
Flatten(ss) == IF ss = <<>> THEN <<>> ELSE Head(ss) \o Flatten(Tail(ss))

\* Bytes taken in a Data Message by the populated fields listed before position j.
RECURSIVE SizeBefore(_, _)
SizeBefore(r, j) ==
    IF j <= 1 THEN 0
    ELSE SizeBefore(r, j - 1)
         + (IF IsSome(r[FieldTable[j - 1][1]]) THEN FieldTable[j - 1][3] ELSE 0)

\* Index in a Data Message of the first byte of the field at position j.
FieldAt(r, j) == 6 + SizeBefore(r, j)

LogOf(kind) == {k \in 1..Len(log) : log[k].kind = kind}

ShapeChanges(n) == {r \in 2..n : Shape(list[r]) # Shape(list[r - 1])}

\* C1: a Definition Message is written immediately before record i's Data
\* Message iff i is the first record or its shape differs from that of record
\* i-1, otherwise the Data Message alone; the Definition Messages number 1 plus
\* the adjacent shape changes, and none for the empty sequence.
C1_DefinitionIffShapeChange ==
    LET done == idx - 1
    IN  /\ bytes = Flatten([k \in 1..Len(log) |-> log[k].msg])
        /\ \A k \in LogOf("def") :
               /\ k < Len(log)
               /\ log[k + 1].kind = "data"
               /\ log[k + 1].rec = log[k].rec
        /\ \A r \in 1..done :
               /\ Cardinality({k \in LogOf("data") : log[k].rec = r}) = 1
               /\ (\E k \in LogOf("def") : log[k].rec = r)
                      <=> (r = 1 \/ Shape(list[r]) # Shape(list[r - 1]))
        /\ Cardinality(LogOf("def"))
               = (IF done = 0 THEN 0 ELSE 1 + Cardinality(ShapeChanges(done)))
        /\ Cardinality(LogOf("data")) = done

C1_Witness ==
    /\ pc = "done"
    /\ Len(list) = 3
    /\ list[1] # list[2]
    /\ Shape(list[1]) = Shape(list[2])
    /\ Shape(list[3]) # Shape(list[2])
    /\ Cardinality(LogOf("def")) = 2

\* C2: the output starts with the 12 header bytes 12, 0x20, 0xEB, 0x07, the
\* little-endian 32-bit length of the message section, '.', 'F', 'I', 'T', and
\* is 12 + that length + 2 bytes long.
C2_Header ==
    pc = "done" =>
        /\ Len(out) = 12 + Len(bytes) + 2
        /\ SubSeq(out, 1, 4) = <<12, 32, 235, 7>>
        /\ out[5] + 256 * out[6] + 65536 * out[7] + 16777216 * out[8] = Len(bytes)
        /\ SubSeq(out, 9, 12) = <<46, 70, 73, 84>>
        /\ SubSeq(out, 13, Len(out) - 2) = bytes

C2_Witness == pc = "done" /\ Len(list) = 3 /\ Len(bytes) > 100

\* The u32 sum a + b modulo 2^32, on limbs.
U32WrappingAdd(a, b) ==
    LET carry == IF a.lo + b.lo >= Pow16 THEN 1 ELSE 0
    IN  [hi |-> (a.hi + b.hi + carry) % Pow16, lo |-> (a.lo + b.lo) % Pow16]

C4_DefinitionLayout ==
    \A k \in LogOf("def") :
        LET r  == list[log[k].rec]
            m  == log[k].msg
            n  == 1 + Cardinality(Shape(r))
            on == SelectSeq(FieldTable, LAMBDA t : t[1] \in Shape(r))
        IN  /\ Len(m) = 6 + 3 * n
            /\ SubSeq(m, 1, 6) = <<64, 0, 0, 20, 0, n>>
            /\ SubSeq(m, 7, 9) = <<253, 4, 134>>
            /\ Len(on) = n - 1
            /\ \A j \in 1..Len(on) :
                   SubSeq(m, 7 + 3 * j, 9 + 3 * j) = <<on[j][2], on[j][3], on[j][4]>>

C4_Witness ==
    /\ pc = "done"
    /\ \E k \in LogOf("def") :
           Shape(list[log[k].rec]) = FieldNames /\ Len(log[k].msg) = 33
    /\ \E k \in LogOf("def") :
           Shape(list[log[k].rec]) = {} /\ Len(log[k].msg) = 9

\* The CRC-16 with the reflected polynomial 0xA001 and initial value 0, one
\* bit at a time from the low bit of each byte: the function that the
\* nibble-wise table of the FIT format tabulates.
RECURSIVE Crc16Bits(_, _, _)
Crc16Bits(crc, byte, n) ==
    IF n = 0 THEN crc
    ELSE Crc16Bits(IF (crc % 2) # (byte % 2)
                   THEN BitXor(crc \div 2, 40961) ELSE crc \div 2,
                   byte \div 2, n - 1)

RECURSIVE Crc16(_, _, _, _)
Crc16(blob, lo, hi, crc) ==
    IF lo > hi THEN crc
    ELSE IF lo = hi THEN Crc16Bits(crc, blob[lo], 8)
    ELSE LET mid  == (lo + hi) \div 2
             left == Crc16(blob, lo, mid, crc)
         IN  IF left = 0 THEN Crc16(blob, mid + 1, hi, 0)
             ELSE Crc16(blob, mid + 1, hi, left)

\* C5: the last two bytes of the output are the little-endian CRC-16, from
\* the initial value 0 and the low nibble of each byte first, of the header
\* followed by the messages: of every byte of the output but the last two.
C5_CrcOverHeaderAndMessages ==
    pc = "done" =>
        LET n   == Len(out)
            crc == Crc16(out, 1, n - 2, 0)
        IN  /\ n >= 14
            /\ SubSeq(out, 1, n - 2) = make_header(Len(bytes)) \o bytes
            /\ out[n - 1] = crc % 256
            /\ out[n] = crc \div 256

C5_Witness ==
    /\ pc = "done"
    /\ Len(list) = 3
    /\ Cardinality(LogOf("def")) = 3
    /\ out[Len(out)] # 0
    /\ out[Len(out) - 1] # 0

\* C6: the empty sequence gives the 14 bytes 0C 20 EB 07 00 00 00 00 2E 46
\* 49 54 36 C1.
C6_EmptySequence ==
    (pc = "done" /\ list = <<>>) =>
        out = <<12, 32, 235, 7, 0, 0, 0, 0, 46, 70, 73, 84, 54, 193>>

C6_Witness == pc = "done" /\ list = <<>> /\ Len(out) = 14

\* The record of the golden vector: power 180, heart rate 120, cadence 90.
GoldenRecord ==
    [seconds_since_unix_epoch |-> ToU32(1583801576),
     power |-> Some(180), heart_rate |-> Some(120), cadence |-> Some(90),
     latitude |-> None, longitude |-> None, altitude |-> None,
     distance |-> None, speed |-> None]

\* C7 as stated: that record alone gives a sequence of 40 bytes.
C7_FortyBytes ==
    (pc = "done" /\ list = <<GoldenRecord>>) => Len(out) = 40

\* C7: the record with power 180, heart rate 120 and cadence 90 alone gives
\* the fixed sequence of 41 bytes: header, one Definition Message of 4
\* fields, one Data Message, CRC.
C7_GoldenVector ==
    (pc = "done" /\ list = <<GoldenRecord>>) =>
        out = <<12, 32, 235, 7, 27, 0, 0, 0, 46, 70, 73, 84,
                64, 0, 0, 20, 0, 4, 253, 4, 134, 7, 2, 132, 3, 1, 2, 4, 1, 2,
                0, 232, 152, 201, 56, 180, 0, 120, 90,
                228, 193>>

C7_Witness == pc = "done" /\ list = <<GoldenRecord>> /\ Len(out) = 41

\* C8: to_file returns a byte sequence for every sequence of records,
\* whatever their seconds_since_unix_epoch: it never aborts.
C8_NeverAborts == pc # "panicked"

\* n/d rounded to the nearest integer, halves away from zero.
RoundDiv(n, d) ==
    IF n >= 0 THEN (2 * n + d) \div (2 * d) ELSE -((2 * (-n) + d) \div (2 * d))

\* round(degrees * 2^29 / 45) for degrees strictly between -180 and 180.
RoundSemicircles(l) ==
    LET den == 45 * l.d
        m   == IF l.n >= 0 THEN l.n ELSE -l.n
        qr  == MulPow29Div(m \div den, m % den, den)
        q   == qr[1] + (IF 2 * qr[2] >= den THEN 1 ELSE 0)
    IN  IF l.n >= 0 THEN q ELSE -q

DegreesInRange(l) == -(180 * l.d) < l.n /\ l.n < 180 * l.d

\* C9: the scaled fields of a Data Message are rounded to the nearest
\* integer: altitude round(5 * (m + 500)), distance round(100 * m), speed
\* round(1000 * m/s), latitude and longitude round(degrees * 2^29 / 45), for
\* every value whose scaled value is in the range of its field.
C9_ScaledFieldsRounded ==
    \A k \in LogOf("data") :
        LET r == list[log[k].rec]
            m == log[k].msg
        IN  /\ (IsSome(r.latitude) /\ DegreesInRange(r.latitude[1])) =>
                   SubSeq(m, FieldAt(r, 1), FieldAt(r, 1) + 3)
                       = I32ToLeBytes(RoundSemicircles(r.latitude[1]))
            /\ (IsSome(r.longitude) /\ DegreesInRange(r.longitude[1])) =>
                   SubSeq(m, FieldAt(r, 2), FieldAt(r, 2) + 3)
                       = I32ToLeBytes(RoundSemicircles(r.longitude[1]))
            /\ IsSome(r.altitude) =>
                   LET a == r.altitude[1]
                       v == RoundDiv(5 * (a.n + 500 * a.d), a.d)
                   IN  (0 <= v /\ v <= 65535) =>
                           m[FieldAt(r, 3)] + 256 * m[FieldAt(r, 3) + 1] = v
            /\ IsSome(r.distance) =>
                   LET v == RoundDiv(100 * r.distance[1].n, r.distance[1].d)
                   IN  (0 <= v) =>
                           SubSeq(m, FieldAt(r, 7), FieldAt(r, 7) + 3)
                               = U32ToLeBytes(ToU32(v))
            /\ IsSome(r.speed) =>
                   LET v == RoundDiv(1000 * r.speed[1].n, r.speed[1].d)
                   IN  (0 <= v /\ v <= 65535) =>
                           m[FieldAt(r, 8)] + 256 * m[FieldAt(r, 8) + 1] = v


\* The optional fields of a cycling power measurement in their order in the
\* payload: the flag bit and the size in bytes of each.
CpmOptional == << <<0, 1>>, <<2, 2>>, <<4, 6>>, <<5, 4>> >>

Bit(f, i) == (f \div (2 ^ i)) % 2 = 1

\* 4 plus the sizes of the optional fields present before the j-th.
RECURSIVE CpmOffset(_, _)
CpmOffset(f, j) ==
    IF j <= 1 THEN 4
    ELSE CpmOffset(f, j - 1)
         + (IF Bit(f, CpmOptional[j - 1][1]) THEN CpmOptional[j - 1][2] ELSE 0)

\* The payload bytes from offset k (counted from 0), n of them.
Slice(d, k, n) == SubSeq(d, k + 1, k + n)

\* C10: the power is the signed little-endian 16-bit value at offset 2; each
\* optional field is in the result iff its flag bit is set (balance bit 0,
\* torque bit 2, wheel bit 4, crank bit 5) and is read at offset 4 plus the
\* sizes 1, 2, 6, 4 of the present fields before it; the torque source is
\* Crank iff bit 3 is set and Wheel otherwise.
C10_CpmFieldOffsets ==
    (dpc = "returned" /\ decoder = "cpm") =>
        LET f == data[1]
            m == measurement[1]
            b == Slice(data, CpmOffset(f, 1), 1)
            t == Slice(data, CpmOffset(f, 2), 2)
            w == Slice(data, CpmOffset(f, 3), 6)
            c == Slice(data, CpmOffset(f, 4), 4)
        IN  /\ m.instantaneous_power \in -32768..32767
            /\ (m.instantaneous_power - (data[3] + 256 * data[4])) % 65536 = 0
            /\ IsSome(m.pedal_power_balance_percent) <=> Bit(f, 0)
            /\ Bit(f, 0) => m.pedal_power_balance_percent[1] = Frac(b[1], 2)
            /\ IsSome(m.accumulated_torque) <=> Bit(f, 2)
            /\ Bit(f, 2) =>
                   /\ m.accumulated_torque[1][1] = (IF Bit(f, 3) THEN "Crank" ELSE "Wheel")
                   /\ m.accumulated_torque[1][2] = Frac(t[1] + 256 * t[2], 32)
            /\ IsSome(m.wheel_revolution_data) <=> Bit(f, 4)
            /\ Bit(f, 4) =>
                   /\ U32ToLeBytes(m.wheel_revolution_data[1].revolution_count)
                          = SubSeq(w, 1, 4)
                   /\ m.wheel_revolution_data[1].last_revolution_event_time
                          = Frac(w[5] + 256 * w[6], 2048)
            /\ IsSome(m.crank_revolution_data) <=> Bit(f, 5)
            /\ Bit(f, 5) =>
                   /\ U32ToLeBytes(m.crank_revolution_data[1].revolution_count)
                          = <<c[1], c[2], 0, 0>>
                   /\ m.crank_revolution_data[1].last_revolution_event_time
                          = Frac(c[3] + 256 * c[4], 1024)

\* Torque from the crank, wheel and crank data without balance, and a
\* negative power.
C10_Witness ==
    /\ dpc = "returned"
    /\ decoder = "cpm"
    /\ data[1] = 60
    /\ Len(data) = 16
    /\ measurement[1].instantaneous_power < 0
    /\ measurement[1].accumulated_torque[1][1] = "Crank"
    /\ IsSome(measurement[1].crank_revolution_data)
    /\ ~IsSome(measurement[1].pedal_power_balance_percent)

(***************************************************************************)
(* The heart rate and CSC decoders.                                        *)
(***************************************************************************)
\* 1 when bit i of the flags byte f is set, else 0.
BitVal(f, i) == (f \div (2 ^ i)) % 2

\* The little-endian 16-bit value of the two payload bytes at offset k.
Le16At(d, k) == Slice(d, k, 2)[1] + 256 * Slice(d, k, 2)[2]

\* C11: parse_hrm reads bpm as byte 1 when bit 0 is clear and as the
\* little-endian 16-bit value of bytes 1-2 when it is set; energy expended,
\* present iff bit 3 is set, is the little-endian 16-bit value right after
\* bpm; all bytes after those fields are little-endian 16-bit RR values
\* divided by 1024, in stream order, floor(remaining / 2) of them, whatever
\* bit 4 is.
C11_HrmLayout ==
    (dpc = "returned" /\ decoder = "hrm") =>
        LET f      == data[1]
            m      == measurement[1]
            after  == 2 + BitVal(f, 0)
            rest   == after + 2 * BitVal(f, 3)
        IN  /\ m.bpm = (IF Bit(f, 0) THEN Le16At(data, 1) ELSE data[2])
            /\ IsSome(m.energy_expended) <=> Bit(f, 3)
            /\ Bit(f, 3) => m.energy_expended[1] = Le16At(data, after)
            /\ 2 * Len(m.rr_intervals) <= Len(data) - rest
            /\ 2 * Len(m.rr_intervals) + 1 >= Len(data) - rest
            /\ \A i \in 1..Len(m.rr_intervals) :
                   m.rr_intervals[i] = Frac(Le16At(data, rest + 2 * (i - 1)), 1024)

\* 16-bit bpm, energy, two different RR intervals and a trailing odd byte,
\* with bit 4 clear.
C11_Witness ==
    /\ dpc = "returned"
    /\ decoder = "hrm"
    /\ data[1] = 9
    /\ Len(data) = 10
    /\ measurement[1].bpm > 255
    /\ IsSome(measurement[1].energy_expended)
    /\ Len(measurement[1].rr_intervals) = 2
    /\ measurement[1].rr_intervals[1] # measurement[1].rr_intervals[2]

\* C12: parse_hrm reports sensor contact as None whenever bit 2 is clear,
\* whatever bit 1 is, and as Some(bit 1 is set) whenever bit 2 is set.
C12_SensorContact ==
    (dpc = "returned" /\ decoder = "hrm") =>
        LET f == data[1]
            c == measurement[1].is_sensor_contact_detected
        IN  /\ ~Bit(f, 2) => c = None
            /\ Bit(f, 2) => c = Some(Bit(f, 1))
            /\ c = Some(FALSE) => Bit(f, 2)

\* Bit 1 set on a device without the feature (bit 2 clear).
C12_Witness ==
    /\ dpc = "returned"
    /\ decoder = "hrm"
    /\ Bit(data[1], 1)
    /\ ~Bit(data[1], 2)
    /\ measurement[1].is_sensor_contact_detected = None

\* C13: parse_csc_measurement returns wheel data iff bit 0 is set and crank
\* data iff bit 1 is set; wheel data is the 4-byte little-endian count at
\* offset 1 and the 2-byte little-endian time / 1024; crank data starts at
\* offset 7 with wheel data and at offset 1 without, and is a 2-byte
\* little-endian count (below 65536) and the 2-byte little-endian time / 1024.
C13_CscLayout ==
    (dpc = "returned" /\ decoder = "csc") =>
        LET f == data[1]
            m == measurement[1]
            c == IF Bit(f, 0) THEN 7 ELSE 1
        IN  /\ IsSome(m.wheel) <=> Bit(f, 0)
            /\ IsSome(m.crank) <=> Bit(f, 1)
            /\ Bit(f, 0) =>
                   /\ U32ToLeBytes(m.wheel[1].revolution_count) = Slice(data, 1, 4)
                   /\ m.wheel[1].last_revolution_event_time
                          = Frac(Le16At(data, 5), 1024)
            /\ Bit(f, 1) =>
                   /\ m.crank[1].revolution_count.hi = 0
                   /\ m.crank[1].revolution_count.lo = Le16At(data, c)
                   /\ m.crank[1].revolution_count.lo < 65536
                   /\ m.crank[1].last_revolution_event_time
                          = Frac(Le16At(data, c + 2), 1024)

\* Wheel and crank data together, the crank count differing from the low
\* half of the wheel count.
C13_Witness ==
    /\ dpc = "returned"
    /\ decoder = "csc"
    /\ data[1] % 4 = 3
    /\ IsSome(measurement[1].wheel)
    /\ IsSome(measurement[1].crank)
    /\ measurement[1].crank[1].revolution_count.lo
           # measurement[1].wheel[1].revolution_count.lo
    /\ measurement[1].wheel[1].revolution_count.hi > 0

\* x = y / 2 for fractions x and y.
IsHalfOf(x, y) == 2 * x.n * y.d = y.n * x.d

\* C14: the crank RevolutionData that parse_cycling_power_measurement
\* decodes equals what parse_csc_measurement decodes from the same 4 crank
\* bytes; from the same 6 wheel bytes the two decoders give the same count
\* and the cycling power event time is exactly half of the CSC event time.
C14_CpmAgreesWithCsc ==
    (dpc = "returned" /\ decoder = "cpm") =>
        LET f == data[1]
            m == measurement[1]
            w == Slice(data, CpmOffset(f, 3), 6)
            c == Slice(data, CpmOffset(f, 4), 4)
        IN  /\ Bit(f, 5) =>
                   m.crank_revolution_data = parse_csc_measurement(<<2>> \o c).crank
            /\ Bit(f, 4) =>
                   LET v == parse_csc_measurement(<<1>> \o w).wheel[1]
                       u == m.wheel_revolution_data[1]
                   IN  /\ u.revolution_count = v.revolution_count
                       /\ IsHalfOf(u.last_revolution_event_time,
                                   v.last_revolution_event_time)

\* Wheel and crank data in one cycling power payload, with a wheel event
\* time that is not zero.
C14_Witness ==
    /\ dpc = "returned"
    /\ decoder = "cpm"
    /\ Bit(data[1], 4)
    /\ Bit(data[1], 5)
    /\ measurement[1].wheel_revolution_data[1].last_revolution_event_time.n > 0
    /\ measurement[1].crank_revolution_data[1].revolution_count.lo > 0

\* The least payload length with which a decoder does not abort.
MinLength(dec, f) ==
    CASE dec = "hrm" -> 2 + BitVal(f, 0) + 2 * BitVal(f, 3)
      [] dec = "csc" -> 1 + 6 * BitVal(f, 0) + 4 * BitVal(f, 1)
      [] dec = "cpm" -> 4 + BitVal(f, 0) + 2 * BitVal(f, 2)
                          + 6 * BitVal(f, 4) + 4 * BitVal(f, 5)

ReadsOf(dec, d) ==
    CASE dec = "hrm" -> hrm_reads(d)
      [] dec = "csc" -> csc_reads(d)
      [] dec = "cpm" -> cpm_reads(d)

\* C15: a decoder aborts, returning no measurement, exactly when the payload
\* is empty or shorter than the minimum length its flags byte implies; with
\* any longer payload it returns a measurement and reads no byte at or beyond
\* the payload length.
C15_AbortsIffTooShort ==
    (dpc # "ready" /\ dpc # "idle") =>
        LET short == IF Len(data) = 0 THEN TRUE
                     ELSE Len(data) < MinLength(decoder, data[1])
        IN  /\ dpc = "panicked" <=> short
            /\ dpc = "returned" <=> ~short
            /\ dpc = "panicked" => measurement = None
            /\ dpc = "returned" =>
                   /\ IsSome(measurement)
                   /\ \A k \in ReadsOf(decoder, data) : 0 <= k /\ k < Len(data)

\* A heart rate payload one byte short of its 16-bit bpm and energy fields.
C15_Witness ==
    /\ dpc = "panicked"
    /\ decoder = "hrm"
    /\ Len(data) = 4
    /\ data[1] = 9

(***************************************************************************)
(* The sample store.                                                       *)
(***************************************************************************)
DurationLess(a, b) == IF a[1] = b[1] THEN a[2] < b[2] ELSE a[1] < b[1]

\* The order of characteristic ids: the 16-bit ones by number and before the
\* 128-bit ones, which go by their bytes.
SuuidLess(a, b) ==
    IF a[1] # b[1] THEN a[1] = "B16"
    ELSE IF a[1] = "B16" THEN a[2] < b[2]
    ELSE BytesLess(a[2], b[2])

\* The lexicographic order of (session_key, elapsed, characteristic_id).
TupleLess(a, b) ==
    IF a.session_key # b.session_key THEN a.session_key < b.session_key
    ELSE IF a.d # b.d THEN DurationLess(a.d, b.d)
    ELSE SuuidLess(a.suuid, b.suuid)

\* The session (run of main) whose notification wrote the entry under key k.
OwnerOf(k) ==
    LET is == {i \in 1..Len(received) : received[i].key = k}
        last == CHOOSE i \in is : \A j \in is : j <= i
    IN  received[last].run

GreatestKey == CHOOSE k \in DbKeys(db) : \A j \in DbKeys(db) \ {k} : BytesLess(j, k)

MostRecentSession == received[Len(received)].run

\* The byte-wise order of the stored keys is the order of the tuples they
\* were made of.
KeyOrderIsTupleOrder ==
    \A k1 \in DbKeys(db), k2 \in DbKeys(db) :
        BytesLess(k1, k2) <=> TupleLess(key_deserialize(k1), key_deserialize(k2))

\* What print_db has iterated so far keeps each session together and in
\* non-decreasing elapsed time.
IterationBySession ==
    \A i \in 1..Len(printed), j \in 1..Len(printed) :
        (i < j /\ OwnerOf(printed[i].key) = OwnerOf(printed[j].key)) =>
            /\ ~DurationLess(printed[j].d, printed[i].d)
            /\ \A m \in i..j : OwnerOf(printed[m].key) = OwnerOf(printed[i].key)

\* C16: the byte-wise order of the serialized keys is the lexicographic order
\* of (session_key, elapsed, characteristic_id), so that iterating the store
\* yields all samples of one session contiguously and in non-decreasing
\* elapsed time, and the greatest key belongs to the most recent session.
C16_KeyOrder ==
    /\ KeyOrderIsTupleOrder
    /\ IterationBySession
    /\ db # {} => OwnerOf(GreatestKey) = MostRecentSession

\* C17: stored samples are append-only and immutable: every notification
\* received has its own entry in the store, with the payload it arrived with,
\* whatever notification came after it.
C17_AppendOnly ==
    /\ \A i \in 1..Len(received) : <<received[i].key, received[i].value>> \in db
    /\ Cardinality(db) = Len(received)

\* C18: parse_hrm is only run on payloads delivered or stored under the heart
\* rate measurement characteristic 0x2A37, in the notification handler and
\* in print_db.
C18_HrmDecoderOnHrmPayloads ==
    \A c \in hrm_calls : c.uuid = HrMeasurementUuid

\* print_db has decoded stored entries of two sessions and the handler has
\* decoded a notification.
C18_Witness ==
    /\ mpc = "print_db"
    /\ Len(printed) >= 2
    /\ OwnerOf(printed[1].key) # OwnerOf(printed[2].key)
    /\ [site |-> "print_db", uuid |-> HrMeasurementUuid] \in hrm_calls
    /\ [site |-> "on_notification", uuid |-> HrMeasurementUuid] \in hrm_calls

(***************************************************************************)
(* The rate calculator.                                                    *)
(***************************************************************************)
\* The raw 1/1024 s ticks between the two events, modulo the 16-bit register.
TicksBetween(prev, cur) ==
    (cur.last_revolution_event_time.n - prev.last_revolution_event_time.n) % Pow16

\* dc is the count delta modulo 2^w: previous + dc = current in the register.
IsCountDelta(dc, prev, cur, w) ==
    IF w = 16
    THEN /\ dc.hi = 0
         /\ (prev.revolution_count.lo + dc.lo) % Pow16 = cur.revolution_count.lo
    ELSE U32WrappingAdd(prev.revolution_count, dc) = cur.revolution_count

CountsEqual(prev, cur, w) ==
    IF w = 16 THEN prev.revolution_count.lo = cur.revolution_count.lo
    ELSE prev.revolution_count = cur.revolution_count

\* C19: the rate calculator returns absence iff the wraparound-aware count
\* delta is 0 or the time delta modulo the 64 s period is not positive;
\* otherwise it returns delta_count and rpm = delta_count / delta_time * 60,
\* which is positive.  Counts 100 -> 105 with raw times 60000 -> 500 give
\* delta_count = 5 and a positive rpm; equal counts give absence whatever
\* the times.
C19_RateCalculator ==
    (rpc = "returned") =>
        LET ticks == TicksBetween(previous, current)
        IN  /\ rate_result = None <=>
                   (CountsEqual(previous, current, width) \/ ticks = 0)
            /\ rate_result # None =>
                   LET dc == rate_result[1].delta_count
                       rpm == rate_result[1].rpm
                   IN  /\ IsCountDelta(dc, previous, current, width)
                       /\ dc.hi = 0
                       /\ rpm.d = ticks
                       /\ rpm.n = dc.lo * 60 * 1024
                       /\ rpm.n > 0 /\ rpm.d > 0
            /\ ( /\ previous.revolution_count = ToU32(100)
                 /\ current.revolution_count = ToU32(105)
                 /\ previous.last_revolution_event_time.n = 60000
                 /\ current.last_revolution_event_time.n = 500 ) =>
                   /\ rate_result # None
                   /\ rate_result[1].delta_count = ToU32(5)
                   /\ rate_result[1].rpm.n > 0

\* The example of the specification: the event time wraps around, the count
\* goes from 100 to 105.
C19_Witness ==
    /\ rpc = "returned"
    /\ previous.revolution_count = ToU32(100)
    /\ current.revolution_count = ToU32(105)
    /\ previous.last_revolution_event_time.n = 60000
    /\ current.last_revolution_event_time.n = 500
    /\ rate_result # None
    /\ rate_result[1].rpm = Frac(5 * 60 * 1024, 6036)

(***************************************************************************)
(* The session aggregator.                                                 *)
(***************************************************************************)
\* The seconds in which at least one input sample falls.
SampleSeconds == {session_start + samples[i].elapsed[1] : i \in 1..Len(samples)}

\* C20: the aggregator outputs exactly one FitRecord for each distinct second
\* (session start + floor(elapsed)) in which an input sample falls, in
\* strictly increasing timestamp order, the second of the last input sample
\* included.
C20_OneRecordPerSecond ==
    (apc = "done") =>
        /\ Len(records) = Cardinality(SampleSeconds)
        /\ {records[i].seconds_since_unix_epoch : i \in 1..Len(records)}
               = {ToU32(t) : t \in SampleSeconds}
        /\ \A i \in 1..Len(records), j \in 1..Len(records) :
               i < j => U32SubOverflows(records[i].seconds_since_unix_epoch,
                                        records[j].seconds_since_unix_epoch)

\* The second of the i-th input sample, as a record carries it.
SecondOf(i) == ToU32(session_start + samples[i].elapsed[1])

\* The power samples that fall in the second t or before it: samples are in
\* time order, so these are the ones up to the last sample of that second.
PowerSamplesUpTo(t) ==
    {i \in 1..Len(samples) :
         /\ samples[i].characteristic_id = PowerMeasurementUuid
         /\ \E j \in i..Len(samples) : SecondOf(j) = t}

\* The instantaneous power of a cycling power payload as an unsigned 16-bit
\* value: the two bytes at offset 2, little-endian.
RawPower(payload) == payload[3] + 256 * payload[4]

\* C21: once a power sample has been observed, every record finalized
\* afterwards has its power set, to the power decoded in its second if there
\* was one and otherwise to the most recently observed power; a record
\* finalized before the first power sample keeps its power unset.
C21_PowerCarriedForward ==
    \A i \in 1..Len(records) :
        LET seen == PowerSamplesUpTo(records[i].seconds_since_unix_epoch)
        IN  IF seen = {} THEN records[i].power = None
            ELSE LET last == CHOOSE k \in seen : \A j \in seen : j <= k
                 IN  records[i].power = Some(RawPower(samples[last].payload))

\* Two finalized records: the first has a power sample in its second, the
\* second has none and carries the same power.
C21_Witness ==
    /\ Len(records) = 2
    /\ records[1].power # None
    /\ records[2].power = records[1].power
    /\ records[2].heart_rate # None
    /\ PowerSamplesUpTo(records[2].seconds_since_unix_epoch)
           = PowerSamplesUpTo(records[1].seconds_since_unix_epoch)

(***************************************************************************)
(* The torque accumulator.                                                 *)
(***************************************************************************)
\* What the step from reading a to reading b adds, in 1/32 N.m: b - a when
\* a <= b and b - a + 2048 * 32 when a > b.
StepContribution(a, b) == IF a.n <= b.n THEN b.n - a.n ELSE b.n - a.n + 65536

RECURSIVE ContributionsUpTo(_)
ContributionsUpTo(k) ==
    IF k <= 1 THEN 0
    ELSE ContributionsUpTo(k - 1) + StepContribution(readings[k - 1], readings[k])

\* C22: the accumulator starts at 0, is unchanged by the first reading, and
\* each later reading b after a adds b - a when a <= b and b - a + 2048 when
\* a > b, so that no step adds a negative amount and the accumulated value
\* never decreases.
C22_TorqueAccumulator ==
    /\ Len(readings) <= 1 => accumulated = Frac(0, 32)
    /\ accumulated = Frac(ContributionsUpTo(Len(readings)), 32)
    /\ \A k \in 2..Len(readings) :
           /\ StepContribution(readings[k - 1], readings[k]) >= 0
           /\ ContributionsUpTo(k - 1) <= ContributionsUpTo(k)
    /\ accumulated.n >= 0

\* The example of the specification: 2040 -> 10 contributes 18.
C22_Witness ==
    /\ readings = <<Frac(65280, 32), Frac(320, 32)>>
    /\ accumulated = Frac(18 * 32, 32)

\* The calls that draw on the LCD and reset what render knows of it.
ResetOps == {"render_msg", "render_options"}

\* A render() was among the calls before the k-th one, with no render_msg
\* or render_options after it.
RenderedSince(k) ==
    \E j \in 1..(k - 1) :
        /\ calls[j].op = "render"
        /\ \A m \in (j + 1)..(k - 1) : calls[m].op \notin ResetOps

\* C23: render() clears the LCD exactly when no render() has happened since
\* construction or since the most recent render_msg or render_options;
\* render_msg and render_options always clear; has_rendered is true after
\* a render() and false after a render_msg or render_options, so that
\* consecutive render() calls clear at most once.
C23_ClearOnFirstRender ==
    /\ \A k \in 1..Len(calls) :
           /\ calls[k].op = "render"
                  => (calls[k].cleared <=> ~RenderedSince(k))
           /\ calls[k].op \in ResetOps => calls[k].cleared
    /\ display.has_rendered <=> RenderedSince(Len(calls) + 1)

\* A message, then two renders: the first clears, the second does not.
C23_Witness ==
    /\ Len(calls) = 3
    /\ calls[1].op = "render_msg"
    /\ calls[2].op = "render" /\ calls[2].cleared
    /\ calls[3].op = "render" /\ ~calls[3].cleared
    /\ display.has_rendered

\* The calls of op so far.
CallsOf(op) == {k \in 1..Len(calls) : calls[k].op = op}

\* The last call of op: only where CallsOf(op) is not empty.
LastCallOf(op) == CHOOSE k \in CallsOf(op) : \A j \in CallsOf(op) : j <= k

\* The text render has to show for a measurement set by op, when the render
\* is at the instant t: absent if never set, last set with None, or last
\* set more than five seconds before t.
ExpectedMeasurement(op, t) ==
    IF CallsOf(op) = {} THEN <<"absent">>
    ELSE LET c == calls[LastCallOf(op)]
         IN  IF ~IsSome(c.arg) THEN <<"absent">>
             ELSE IF t - c.at > 5 THEN <<"absent">>
             ELSE <<"shown", c.arg[1]>>

ExpectedGps(t) ==
    IF CallsOf("set_gps_fix") = {} THEN NoGps
    ELSE LET c == calls[LastCallOf("set_gps_fix")]
         IN  IF t - c.at > 5 THEN NoGps
             ELSE IF c.arg THEN Fix ELSE NoFix

IntegerText(e) ==
    IF e[1] = "absent" THEN Dashes ELSE format_zero_padded(e[2], 3)

SpeedText(e) ==
    IF e[1] = "absent" THEN Dashes
    ELSE format_two_places(Frac(e[2].n * 3600, e[2].d * 1000))

\* The last value given for a quantity that does not age, whatever its age.
LastValue(op, initial) ==
    IF CallsOf(op) = {} THEN initial ELSE calls[LastCallOf(op)].arg

ExpectedKcal(t) ==
    LET energy == LastValue("update_external_energy", Frac(0, 1))
        cranks == IF CallsOf("update_crank_count") = {}
                  THEN (t * 80) \div 60
                  ELSE calls[LastCallOf("update_crank_count")].arg
        kcal   == metabolic_cost_in_kcal(energy, cranks)
    IN  format_zero_padded(kcal.n \div kcal.d, 4)

ExpectedDistance ==
    LET distance == LastValue("update_distance", Frac(0, 1))
    IN  format_two_places(Frac(distance.n, distance.d * 1000))

LastCallIsRender ==
    /\ Len(calls) > 0
    /\ calls[Len(calls)].op = "render"

\* C24: at each render, power, cadence, heart rate, speed and the GPS fix
\* are shown as absent ('---', 'NO GPS') if never set, last updated with
\* None, or last updated more than 5 seconds ago, and a value 5 seconds
\* old or less is shown; external energy, distance and crank count are
\* shown whatever their age.
C24_StaleValuesAbsent ==
    LastCallIsRender =>
        /\ memory_lcd["power"]
               = IntegerText(ExpectedMeasurement("update_power", clock))
        /\ memory_lcd["cadence"]
               = IntegerText(ExpectedMeasurement("update_cadence", clock))
        /\ memory_lcd["heart_rate"]
               = IntegerText(ExpectedMeasurement("update_heart_rate",
                                                 clock))
        /\ memory_lcd["speed"]
               = SpeedText(ExpectedMeasurement("update_speed", clock))
        /\ memory_lcd["gps"] = ExpectedGps(clock)
        /\ memory_lcd["kcal"] = ExpectedKcal(clock)
        /\ memory_lcd["distance"] = ExpectedDistance

\* A render with a power six seconds old, a cadence five seconds old: the
\* first drawn as absent, the second shown.
C24_Witness ==
    /\ Len(calls) = 3
    /\ calls[1].op = "update_power" /\ calls[1].arg = Some(180)
    /\ calls[2].op = "update_cadence"
    /\ calls[3].op = "render"
    /\ clock - calls[1].at = 6
    /\ clock - calls[2].at = 5
    /\ memory_lcd["power"] = Dashes
    /\ memory_lcd["cadence"] = <<"0", "9", "0">>

WorkoutFields ==
    {"power", "cadence", "heart_rate", "external_energy", "crank_count",
     "speed", "distance", "gps_fix", "start_instant"}

\* The field each setter is for.
OwnField(op) ==
    CASE op = "update_power" -> "power"
      [] op = "update_cadence" -> "cadence"
      [] op = "update_heart_rate" -> "heart_rate"
      [] op = "update_external_energy" -> "external_energy"
      [] op = "update_crank_count" -> "crank_count"
      [] op = "update_speed" -> "speed"
      [] op = "update_distance" -> "distance"
      [] op = "set_gps_fix" -> "gps_fix"

SetterOps ==
    {"update_power", "update_cadence", "update_heart_rate",
     "update_external_energy", "update_crank_count", "update_speed",
     "update_distance", "set_gps_fix"}

C25_Step ==
    Len(calls') = Len(calls) + 1 =>
        LET op == calls'[Len(calls')].op
        IN  /\ op = "render" => display'.workout = display.workout
            /\ op \in SetterOps =>
                   /\ display'.has_rendered = display.has_rendered
                   /\ \A f \in WorkoutFields \ {OwnField(op)} :
                          display'.workout[f] = display.workout[f]

\* C25: a render leaves every stored workout value as it was, a stale one
\* included; each update_* and set_gps_fix changes its own field only,
\* leaving the other fields, start_instant and has_rendered as they were.
C25_FrameOfRenderAndSetters == [][C25_Step]_vars

\* A render has drawn a stale power as absent, and the power is still stored.
C25_Witness ==
    /\ LastCallIsRender
    /\ IsSome(display.workout.power)
    /\ clock - display.workout.power[1][2] > StaleAfterSecs
    /\ memory_lcd["power"] = Dashes
    /\ display.has_rendered

\* C26: calculate_crc over the complete output of to_file (the header, the
\* messages and the two CRC bytes) is 0, for every record sequence.
C26_CrcOfWholeFileIsZero == pc = "done" => calculate_crc(out) = 0

\* A file of two records and two definitions whose CRC bytes are not 0.
C26_Witness ==
    /\ pc = "done"
    /\ Len(list) = 2
    /\ Cardinality(LogOf("def")) = 2
    /\ out[Len(out) - 1] + 256 * out[Len(out)] # 0
    /\ calculate_crc(out) = 0

\* The field definitions of the Definition Message at blob[pos..]: the
\* <<number, size>> of each of its n fields.
DeclaredFields(blob, pos, n) ==
    [j \in 1..n |-> <<blob[pos + 6 + 3 * (j - 1)],
                      blob[pos + 6 + 3 * (j - 1) + 1]>>]

RECURSIVE SumSizes(_)
SumSizes(def) == IF def = <<>> THEN 0 ELSE Head(def)[2] + SumSizes(Tail(def))

\* Reading blob from pos with the most recent definition def: a byte 0x40
\* starts a Definition Message of 6 + 3 * field_count bytes, a byte 0x00 a
\* Data Message of 1 + the declared sizes.  The result tells whether the
\* reading ended exactly at the end of blob, and lists the Data Messages
\* with the field numbers declared for each.
RECURSIVE ReadMessages(_, _, _, _)
ReadMessages(blob, pos, def, acc) ==
    IF pos = Len(blob) + 1 THEN [exact |-> TRUE, data |-> acc]
    ELSE IF blob[pos] = 64
    THEN IF pos + 5 > Len(blob) THEN [exact |-> FALSE, data |-> acc]
         ELSE LET n    == blob[pos + 5]
                  next == pos + 6 + 3 * n
              IN  IF next > Len(blob) + 1 THEN [exact |-> FALSE, data |-> acc]
                  ELSE ReadMessages(blob, next,
                                    Some(DeclaredFields(blob, pos, n)), acc)
    ELSE IF blob[pos] = 0 /\ IsSome(def)
    THEN LET next == pos + 1 + SumSizes(def[1])
         IN  IF next > Len(blob) + 1 THEN [exact |-> FALSE, data |-> acc]
             ELSE ReadMessages(blob, next, def,
                      Append(acc,
                             [fields |-> [j \in 1..Len(def[1]) |-> def[1][j][1]],
                              msg    |-> SubSeq(blob, pos, next - 1)]))
    ELSE [exact |-> FALSE, data |-> acc]

\* The field numbers of a record: the timestamp, then its populated fields.
RECURSIVE FieldNumbers(_, _)
FieldNumbers(r, j) ==
    IF j > Len(FieldTable) THEN <<>>
    ELSE (IF IsSome(r[FieldTable[j][1]]) THEN <<FieldTable[j][2]>> ELSE <<>>)
         \o FieldNumbers(r, j + 1)

\* C27: the message section describes itself: read from its start, with
\* 0x40 opening a definition of 6 + 3 * field_count bytes and 0x00 a Data
\* Message of 1 + the sizes the most recent definition declares, it is
\* consumed exactly and gives one Data Message per record, in order, each
\* with the fields of its record.
C27_SelfDescribing ==
    LET read == ReadMessages(bytes, 1, None, <<>>)
    IN  pc \in {"to_file_inner", "done"} =>
            /\ read.exact
            /\ Len(read.data) = idx - 1
            /\ \A r \in 1..(idx - 1) :
                   /\ read.data[r].fields = <<253>> \o FieldNumbers(list[r], 1)
                   /\ \E k \in LogOf("data") :
                          log[k].rec = r /\ log[k].msg = read.data[r].msg

\* Three records read back from a section with two definitions, the last
\* record with an altitude and more fields than the first.
C27_Witness ==
    /\ pc = "done"
    /\ Len(list) = 3
    /\ Cardinality(LogOf("def")) = 2
    /\ IsSome(list[3].altitude)
    /\ LET read == ReadMessages(bytes, 1, None, <<>>)
       IN  /\ read.exact
           /\ Len(read.data) = 3
           /\ Len(read.data[3].fields) > Len(read.data[1].fields)

====
